---- MODULE Spec2Model ----
(***************************************************************************)
(* AgentChatBus: the store (src/src/db/crud.py, src/src/db/database.py),   *)
(* the long-poll wait (src/src/tools/dispatch.py, src/src/mcp_server.py)   *)
(* and the event stream (src/src/main.py).                                 *)
(*                                                                         *)
(* Every coroutine of the server works on ONE shared aiosqlite connection  *)
(* (database.py get_db).  Each awaited db.execute / cursor.fetchone /      *)
(* cursor close / db.commit / db.rollback is one request to the            *)
(* connection's worker thread, which serves the requests one at a time in  *)
(* the order they were made.  A coroutine has at most one request          *)
(* outstanding and makes its next one when the previous one has been       *)
(* served; `queue` is the order of the outstanding requests.  The          *)
(* connection has one open transaction: `db` is what statements on the     *)
(* connection read and write, `disk` is what the last commit made durable. *)
(* A commit by any coroutine commits everything pending, a rollback by any *)
(* coroutine discards everything pending.                                  *)
(***************************************************************************)
EXTENDS Integers, Sequences, FiniteSets, TLC

\* ------------------------------------------------------------------ bounds
\* Number of operation invocations in a behaviour of Spec; SpecPost and
\* SpecRace allow one more.
MaxCalls == 2
\* The clock stops at MaxTime; msg_wait takes timeouts up to MaxTimeout poll
\* intervals and after_seq up to MaxAfter.
MaxTime == 3
MaxTimeout == 2
MaxAfter == 1
\* events_since is called with limit up to MaxLimit.
MaxLimit == 2

Procs == {"p1", "p2", "p3"}
\* Streaming connections of the tool surface.
Conns == {"c1", "c2"}
Topics == {"X", "Y"}
\* The base names "{ide} ({model})" of the clients that register.
Bases == {"B", "C"}
\* uuid4 values are modelled by the number of the call that drew them
\* (1 .. MaxCalls + 1); two more ids stand for the thread that exists at the
\* start and for an id that matches no thread.
FirstThread == MaxCalls + 2
NoThread == MaxCalls + 3
\* Agent ids: the agent registered at the start of SpecSession, and an id
\* that matches no agent.
FirstAgent == MaxCalls + 2
NoAgent == MaxCalls + 3
\* A second agent registered at the start of SpecAgents.
SecondAgent == MaxCalls + 4
\* INSERT OR IGNORE INTO seq_counter (id, val) VALUES (1, 0)
InitialSeq == 0
\* No seq: next_seq yields values above InitialSeq only.
NoSeq == InitialSeq
\* global_sse_stream: last_id = 0, below every AUTOINCREMENT id.
NoEvent == 0

VARIABLES
    db,        \* the connection's view of the tables (pending writes included)
    disk,      \* the tables as of the last commit
    queue,     \* coroutines with a request outstanding on the connection, oldest first
    pc,        \* pc[p]: the request coroutine p awaits
    loc,       \* loc[p]: the locals of coroutine p
    calls,     \* invocations so far; also the source of fresh uuid4 values
    limit,     \* invocations the behaviour may make (fixed by the initial state)
    pool,      \* database.py's module state: conn is _db (0 is None, else the number of the connection), opened counts aiosqlite.connect calls, lock is the holder of _lock ("" is free), ready says init_schema has completed on _db
    maxAlloc,  \* history: the greatest value the UPDATE ... RETURNING of next_seq has yielded
    burned,    \* history: [seq, mid] of each msg_post that got seq from next_seq and then failed or was cancelled before its commit
    created,   \* history: [topic, id, raced] of every thread_create that returned; raced: its INSERT raised IntegrityError
    removed,   \* history: ids of thread rows that left the threads table (delete or rollback)
    committed, \* history: [id, at] the time at which each message row became durable
    now,       \* the clock, in poll intervals of 0.5 s
    bound,     \* the session registry: connection -> credentials bound to it
    waits,     \* history: the msg_wait calls that have returned
    client,    \* the console's subscriber of /events: connected, the id it presented, the highest id it has seen
    sent,      \* history: the event ids yielded on the subscriber's current connection
    replies    \* history: what the calls of the read and the token-gated operations returned

storeVars == <<db, disk>>
histVars == <<maxAlloc, burned, created, removed>>
restVars == <<now, bound, waits, client, sent, replies>>
vars == <<db, disk, queue, pc, loc, calls, limit, pool, maxAlloc, burned, created, removed,
          committed, now, bound, waits, client, sent, replies>>

\* ------------------------------------------------------------------ store
\* The empty schema of init_schema: no rows, seq_counter.val = 0, and the
\* AUTOINCREMENT high-water mark of events (sqlite_sequence) at 0.
EmptyStore ==
    [seq |-> InitialSeq, threads |-> {}, messages |-> {}, agents |-> {},
     events |-> {}, evseq |-> 0]

ThreadIds(s) == {t.id : t \in s.threads}

\* The credentials of no agent: an absent argument, an unbound connection.
NoCreds == [agent_id |-> NoAgent, token |-> NoAgent]

NoLocals ==
    [tid |-> NoThread, topic |-> "", seq |-> NoSeq, cnt |-> 0, mid |-> 0,
     row |-> NoThread, cancelled |-> FALSE,
     conn |-> "", creds |-> NoCreds, explicit |-> NoCreds, ok |-> FALSE,
     handler |-> "", after |-> NoSeq, timeout |-> 0, deadline |-> 0, wake |-> 0,
     rows |-> <<>>, atCall |-> {}, last |-> NoEvent, cutoff |-> 0,
     author |-> NoAgent, author_id |-> NoAgent, base |-> "", names |-> {},
     auth |-> "", surface |-> "", display |-> "", lim |-> 0, include |-> FALSE,
     op |-> "", state |-> "", emits |-> <<>>,
     actual_author |-> [base |-> "", n |-> 0], author_name |-> [base |-> "", n |-> 0]]

\* db.commit(): everything pending on the connection becomes durable.
Commit ==
    /\ disk' = db
    /\ committed' = committed \cup
            {[id |-> m.id, at |-> now] : m \in db.messages \ disk.messages}

\* db.rollback(): everything pending on the connection is discarded.
Rollback == db' = disk

\* _emit_event, the INSERT: the row gets the next AUTOINCREMENT id, one above
\* the high-water mark sqlite_sequence keeps, and created_at = _now().
EmitInsert(s, type, tid, seq) ==
    [s EXCEPT !.evseq = s.evseq + 1,
              !.events = s.events \cup
                  {[id |-> s.evseq + 1, type |-> type, thread_id |-> tid, seq |-> seq,
                    at |-> now]}]

\* ------------------------------------------------------------- coroutines
\* A new call runs as a new coroutine.  Idle coroutines are interchangeable,
\* so the call takes the first idle one.
Slot(p) == IF p = "p1" THEN 1 ELSE IF p = "p2" THEN 2 ELSE 3
Free(p) ==
    /\ pc[p] = "idle"
    /\ \A q \in Procs : Slot(q) < Slot(p) => pc[q] # "idle"
    /\ calls < limit

\* The call makes its first request.
Begin(p, label, locals) ==
    /\ pc' = [pc EXCEPT ![p] = label]
    /\ loc' = [loc EXCEPT ![p] = locals]
    /\ queue' = Append(queue, p)
    /\ calls' = calls + 1
    /\ UNCHANGED <<limit, pool>>

\* A worker that serves any outstanding request, whatever its age.
ServedAnyOrder(p, label) == pc[p] = label /\ \E i \in 1 .. Len(queue) : queue[i] = p

\* The worker thread serves the oldest request.
Served(p, label) == pc[p] = label /\ queue # <<>> /\ Head(queue) = p

\* The queue once the request of p has been served.
Without(q, p) == SelectSeq(q, LAMBDA x : x # p)

\* The coroutine is over: it returned, raised, or was cancelled.
Finish(p) ==
    /\ pc' = [pc EXCEPT ![p] = "idle"]
    /\ loc' = [loc EXCEPT ![p] = NoLocals]
    /\ queue' = Without(queue, p)

\* The request was served.  A cancelled coroutine gets CancelledError at its
\* await and is over; otherwise it runs on with `locals` and makes the
\* request `label`.
Resume(p, label, locals) ==
    IF loc[p].cancelled
    THEN Finish(p)
    ELSE /\ pc' = [pc EXCEPT ![p] = label]
         /\ loc' = [loc EXCEPT ![p] = locals]
         /\ queue' = Append(Without(queue, p), p)

\* Thread rows that a step took out of the threads table.
NoteRemoved == removed' = removed \cup (ThreadIds(db) \ ThreadIds(db'))

\* `async with db.execute(...) as cur: row = await cur.fetchone()`: after the
\* execute, the fetchone and the close of the cursor are requests of their
\* own that change nothing in the store.  So are the SELECTs whose result
\* the model does not keep (the names agent_register reads, the system
\* prompt msg_list reads).
AfterCursor ==
    [mp_agent_fetch |-> "mp_agent_close", mp_agent_close |-> "mp_seq_update",
     mp_seq_fetch |-> "mp_seq_close", mp_seq_close |-> "mp_seq_commit",
     tc_select_fetch |-> "tc_select_close",
     td_select_fetch |-> "td_select_close",
     td_count_fetch |-> "td_count_close", td_count_close |-> "td_del_msgs",
     ar_names_fetch |-> "ar_names_close", ar_names_close |-> "ar_insert",
     mp_mark_close |-> "mp_mark_commit",
     ah_auth_fetch |-> "ah_auth_close", ah_mark_close |-> "ah_mark_commit",
     au_auth_fetch |-> "au_auth_close", au_mark_close |-> "au_mark_commit",
     au_reload_fetch |-> "au_reload_close",
     an_auth_fetch |-> "an_auth_close",
     wt_auth_fetch |-> "wt_auth_close", wt_mark_close |-> "wt_mark_commit",
     wt_fetch |-> "wt_close", wt_sys |-> "wt_sys_fetch", wt_sys_fetch |-> "wt_sys_close",
     ss_fetch |-> "ss_close",
     ep_delete_close |-> "ep_commit", es_fetch |-> "es_close",
     al_fetch |-> "al_close",
     ts_update_close |-> "ts_commit", tl_fetch |-> "tl_close", sw_fetch |-> "sw_close",
     ml_fetch |-> "ml_close", ml_sys |-> "ml_sys_fetch", ml_sys_fetch |-> "ml_sys_close",
     gd_wal |-> "gd_fk", gd_fk |-> "gd_schema"]

CursorStep(p) ==
    /\ pc[p] \in DOMAIN AfterCursor
    /\ Served(p, pc[p])
    /\ Resume(p, AfterCursor[pc[p]], loc[p])
    /\ UNCHANGED <<restVars, db, disk, committed, calls, limit, pool, histVars>>

\* ------------------------------------------------------------------- get_db
\* get_db(): `if _db is None: async with _lock:`; a free asyncio.Lock is
\* taken without suspending, and then `if _db is None:` holds still, the
\* directory is made and the coroutine awaits aiosqlite.connect.  With _db
\* set the call returns it at once.
GdCall(p) ==
    /\ Free(p)
    /\ calls' = calls + 1
    /\ IF pool.conn # 0
       THEN /\ replies' = replies \cup
                   {[op |-> "get_db", caller |-> p, conn |-> pool.conn, ready |-> pool.ready]}
            /\ UNCHANGED <<pc, pool>>
       ELSE IF pool.lock = ""
            THEN /\ pc' = [pc EXCEPT ![p] = "gd_connect"]
                 /\ pool' = [pool EXCEPT !.lock = p]
                 /\ UNCHANGED replies
            ELSE /\ pc' = [pc EXCEPT ![p] = "gd_lock"]
                 /\ UNCHANGED <<pool, replies>>
    /\ UNCHANGED <<now, bound, waits, client, sent, db, disk, committed, queue, loc, limit,
                   histVars>>

\* A waiter gets _lock; the inner `if _db is None:` decides between opening a
\* connection and `return _db`.
GdLocked(p) ==
    /\ pc[p] = "gd_lock"
    /\ pool.lock = ""
    /\ IF pool.conn = 0
       THEN /\ pc' = [pc EXCEPT ![p] = "gd_connect"]
            /\ pool' = [pool EXCEPT !.lock = p]
            /\ UNCHANGED replies
       ELSE /\ replies' = replies \cup
                   {[op |-> "get_db", caller |-> p, conn |-> pool.conn, ready |-> pool.ready]}
            /\ pc' = [pc EXCEPT ![p] = "idle"]
            /\ UNCHANGED pool
    /\ UNCHANGED <<now, bound, waits, client, sent, db, disk, committed, queue, loc, calls,
                   limit, histVars>>

\* _db = await aiosqlite.connect(DB_PATH); _db.row_factory = aiosqlite.Row;
\* the first PRAGMA is requested on the new connection.  Or the connect
\* raises (the file cannot be opened): _db stays None, `async with` releases
\* _lock and the caller gets the exception.
GdConnected(p) ==
    /\ pc[p] = "gd_connect"
    /\ \/ /\ pool' = [pool EXCEPT !.conn = pool.opened + 1, !.opened = @ + 1]
          /\ Resume(p, "gd_wal", loc[p])
          /\ UNCHANGED replies
       \/ /\ pool' = [pool EXCEPT !.lock = ""]
          /\ replies' = replies \cup
                 {[op |-> "get_db", caller |-> p, conn |-> 0, ready |-> FALSE]}
          /\ Finish(p)
    /\ UNCHANGED <<now, bound, waits, client, sent, db, disk, committed, calls, limit,
                   histVars>>

\* await init_schema(_db) has completed; _lock is released; return _db
GdSchema(p) ==
    /\ Served(p, "gd_schema")
    /\ pool' = [pool EXCEPT !.ready = TRUE, !.lock = ""]
    /\ replies' = replies \cup
           {[op |-> "get_db", caller |-> p, conn |-> pool.conn, ready |-> TRUE]}
    /\ Finish(p)
    /\ UNCHANGED <<now, bound, waits, client, sent, db, disk, committed, calls, limit,
                   histVars>>

\* ------------------------------------------------------------ thread_create
\* The UNIQUE INDEX idx_threads_topic: an INSERT of a topic that a row of the
\* table (pending rows included) already holds raises IntegrityError.
TopicTaken(s, topic) == \E t \in s.threads : t.topic = topic

\* SELECT * FROM threads WHERE topic = ? ORDER BY created_at DESC LIMIT 1
ThreadByTopic(s, topic) == {t.id : t \in {u \in s.threads : u.topic = topic}}

\* A variant that hands the caller its own fresh id after the IntegrityError.
OwnIdResult(row, own) == own

\* The id thread_create returns after its INSERT raised IntegrityError: the
\* id of the row it then read by topic.
RacedCreateResult(row, own) == row

\* thread_create is called: tid = uuid4().
TcCall(p) ==
    /\ Free(p)
    /\ \E topic \in Topics :
        Begin(p, "tc_insert", [NoLocals EXCEPT !.tid = calls + 1, !.topic = topic])
    /\ UNCHANGED <<restVars, db, disk, committed, histVars>>

\* INSERT INTO threads
TcInsert(p) ==
    /\ Served(p, "tc_insert")
    /\ IF TopicTaken(db, loc[p].topic)
       THEN /\ db' = db
            /\ Resume(p, "tc_select", loc[p])
       ELSE /\ db' = [db EXCEPT !.threads = @ \cup {[id |-> loc[p].tid, topic |-> loc[p].topic, status |-> "discuss",
                             created_at |-> now, closed_at |-> {}]}]
            /\ Resume(p, "tc_commit", loc[p])
    /\ UNCHANGED <<restVars, disk, committed, calls, limit, pool, histVars>>

TcCommit(p) ==
    /\ Served(p, "tc_commit")
    /\ Commit
    /\ Resume(p, "tc_emit", loc[p])
    /\ UNCHANGED <<restVars, db, calls, limit, pool, histVars>>

TcEmit(p) ==
    /\ Served(p, "tc_emit")
    /\ db' = EmitInsert(db, "thread.new", loc[p].tid, NoSeq)
    /\ Resume(p, "tc_emit_commit", loc[p])
    /\ UNCHANGED <<restVars, disk, committed, calls, limit, pool, histVars>>

\* The commit of _emit_event; thread_create returns Thread(id=tid).
TcReturn(p) ==
    /\ Served(p, "tc_emit_commit")
    /\ Commit
    /\ created' = IF loc[p].cancelled THEN created
                  ELSE created \cup {[topic |-> loc[p].topic, id |-> loc[p].tid, raced |-> FALSE]}
    /\ Finish(p)
    /\ UNCHANGED <<restVars, db, calls, limit, pool, maxAlloc, burned, removed>>

\* except sqlite3.IntegrityError: SELECT the row by topic.
TcSelect(p) ==
    /\ Served(p, "tc_select")
    /\ \/ \E r \in ThreadByTopic(db, loc[p].topic) :
            Resume(p, "tc_select_fetch", [loc[p] EXCEPT !.row = r])
       \/ /\ ThreadByTopic(db, loc[p].topic) = {}
          /\ Resume(p, "tc_select_fetch", [loc[p] EXCEPT !.row = NoThread])
    /\ UNCHANGED <<restVars, db, disk, committed, calls, limit, pool, histVars>>

\* The cursor is closed; return the row read, or re-raise when there is none.
TcSelectReturn(p) ==
    /\ Served(p, "tc_select_close")
    /\ created' = IF loc[p].cancelled \/ loc[p].row = NoThread THEN created
                  ELSE created \cup {[topic |-> loc[p].topic,
                                      id |-> RacedCreateResult(loc[p].row, loc[p].tid),
                                      raced |-> TRUE]}
    /\ Finish(p)
    /\ UNCHANGED <<restVars, db, disk, committed, calls, limit, pool, maxAlloc, burned, removed>>

\* ----------------------------------------------------------------- msg_post
\* Thread ids a caller can name: rows it can list, ids a create returned, or
\* an id that matches nothing.
NameableThreads == ThreadIds(db) \cup {c.id : c \in created} \cup {NoThread}

\* The FOREIGN KEY messages.thread_id REFERENCES threads(id), enforced at the
\* end of each statement (PRAGMA foreign_keys=ON).
\* A store that does not enforce the foreign key on INSERT.
Unenforced(s, tid) == TRUE

ThreadExists(s, tid) == tid \in ThreadIds(s)
HasMessages(s, tid) == \E m \in s.messages : m.thread_id = tid

\* msg_post is called; the author is the id of an agent or a plain name
\* (NoAgent).  The call carries no token.  actual_author = author and
\* author_name = author: the argument taken verbatim is written as the name
\* whose text is that string, [base |-> "", n |-> author].
MpCall(p) ==
    /\ Free(p)
    /\ \E tid \in NameableThreads, author \in {a.id : a \in db.agents} \cup {NoAgent} :
        Begin(p, "mp_agent", [NoLocals EXCEPT !.tid = tid, !.mid = calls + 1,
                                 !.author = author,
                                 !.actual_author = [base |-> "", n |-> author],
                                 !.author_name = [base |-> "", n |-> author]])
    /\ UNCHANGED <<restVars, db, disk, committed, histVars>>

\* SELECT id, name FROM agents WHERE id = ?; if row: actual_author =
\* row["name"], author_id = row["id"], author_name = row["name"]
MpResolve(p) ==
    /\ Served(p, "mp_agent")
    /\ Resume(p, "mp_agent_fetch",
              IF \E a \in db.agents : a.id = loc[p].author
              THEN LET row == CHOOSE a \in db.agents : a.id = loc[p].author IN
                   [loc[p] EXCEPT !.actual_author = row.name, !.author_id = row.id,
                                  !.author_name = row.name]
              ELSE loc[p])
    /\ UNCHANGED <<restVars, db, disk, committed, calls, limit, pool, histVars>>

\* SET val = val + 1: the value the UPDATE of next_seq leaves in seq_counter.
StaleCounter(val) == val
IncrementedCounter(val) == val + 1

\* next_seq: UPDATE seq_counter SET val = val + 1 WHERE id = 1 RETURNING val
MpSeqUpdate(p) ==
    /\ Served(p, "mp_seq_update")
    /\ db' = [db EXCEPT !.seq = IncrementedCounter(@)]
    /\ maxAlloc' = IF db'.seq > maxAlloc THEN db'.seq ELSE maxAlloc
    /\ Resume(p, "mp_seq_fetch", [loc[p] EXCEPT !.seq = db'.seq])
    /\ UNCHANGED <<restVars, disk, committed, calls, limit, pool, burned, created, removed>>

\* next_seq: await db.commit(); return row["val"]
MpSeqCommit(p) ==
    /\ Served(p, "mp_seq_commit")
    /\ Commit
    /\ Resume(p, "mp_insert", loc[p])
    /\ UNCHANGED <<restVars, db, calls, limit, pool, histVars>>

\* INSERT INTO messages; a thread_id that matches no row violates the
\* foreign key and the IntegrityError leaves msg_post.
MpInsert(p) ==
    /\ Served(p, "mp_insert")
    /\ IF ThreadExists(db, loc[p].tid)
       THEN /\ db' = [db EXCEPT !.messages = @ \cup
                        {[id |-> loc[p].mid, thread_id |-> loc[p].tid,
                          author |-> loc[p].actual_author, role |-> "user",
                          seq |-> loc[p].seq,
                          created_at |-> now, author_id |-> loc[p].author_id,
                          author_name |-> loc[p].author_name]}]
            /\ burned' = IF loc[p].cancelled
                         THEN burned \cup {[seq |-> loc[p].seq, mid |-> loc[p].mid]}
                         ELSE burned
            /\ Resume(p, "mp_commit", loc[p])
       ELSE /\ db' = db
            /\ burned' = burned \cup {[seq |-> loc[p].seq, mid |-> loc[p].mid]}
            /\ Finish(p)
    /\ UNCHANGED <<restVars, disk, committed, calls, limit, pool, maxAlloc, created, removed>>

\* db.commit(); if author_id: await agent_msg_post(db, author_id)
MpCommit(p) ==
    /\ Served(p, "mp_commit")
    /\ Commit
    /\ Resume(p, IF loc[p].author_id # NoAgent THEN "mp_mark" ELSE "mp_emit", loc[p])
    /\ UNCHANGED <<restVars, db, calls, limit, pool, histVars>>

\* _emit_event(db, "msg.new", ...): the INSERT
MpEmit(p) ==
    /\ Served(p, "mp_emit")
    /\ db' = EmitInsert(db, "msg.new", loc[p].tid, loc[p].seq)
    /\ Resume(p, "mp_emit_commit", loc[p])
    /\ UNCHANGED <<restVars, disk, committed, calls, limit, pool, histVars>>

\* The commit of _emit_event; msg_post returns the Message.
MpReturn(p) ==
    /\ Served(p, "mp_emit_commit")
    /\ Commit
    /\ Finish(p)
    /\ UNCHANGED <<restVars, db, calls, limit, pool, histVars>>

\* ------------------------------------------------------------ thread_delete
TdCall(p) ==
    /\ Free(p)
    /\ \E tid \in NameableThreads \ {NoThread} :
        Begin(p, "td_select", [NoLocals EXCEPT !.tid = tid])
    /\ UNCHANGED <<restVars, db, disk, committed, histVars>>

\* SELECT * FROM threads WHERE id = ?
TdSelect(p) ==
    /\ Served(p, "td_select")
    /\ Resume(p, "td_select_fetch",
              [loc[p] EXCEPT !.row = IF ThreadExists(db, loc[p].tid) THEN loc[p].tid ELSE NoThread])
    /\ UNCHANGED <<restVars, db, disk, committed, calls, limit, pool, histVars>>

\* The cursor is closed; if row is None: return None
TdSelectClose(p) ==
    /\ Served(p, "td_select_close")
    /\ IF loc[p].row = NoThread THEN Finish(p) ELSE Resume(p, "td_count", loc[p])
    /\ UNCHANGED <<restVars, db, disk, committed, calls, limit, pool, histVars>>

\* SELECT COUNT(*) AS cnt FROM messages WHERE thread_id = ?
TdCount(p) ==
    /\ Served(p, "td_count")
    /\ Resume(p, "td_count_fetch",
              [loc[p] EXCEPT !.cnt = Cardinality({m \in db.messages : m.thread_id = loc[p].tid})])
    /\ UNCHANGED <<restVars, db, disk, committed, calls, limit, pool, histVars>>

\* DELETE FROM messages WHERE thread_id = ?
TdDelMsgs(p) ==
    /\ Served(p, "td_del_msgs")
    /\ db' = [db EXCEPT !.messages = {m \in @ : m.thread_id # loc[p].tid}]
    /\ Resume(p, "td_del_thread", loc[p])
    /\ UNCHANGED <<restVars, disk, committed, calls, limit, pool, histVars>>

\* DELETE FROM threads WHERE id = ?; a message row that still references the
\* thread violates the foreign key, and the except branch is entered.
TdDelThread(p) ==
    /\ Served(p, "td_del_thread")
    /\ IF HasMessages(db, loc[p].tid)
       THEN /\ db' = db
            /\ Resume(p, "td_rollback", loc[p])
       ELSE /\ db' = [db EXCEPT !.threads = {t \in @ : t.id # loc[p].tid}]
            /\ Resume(p, "td_commit", loc[p])
    /\ NoteRemoved
    /\ UNCHANGED <<restVars, disk, committed, calls, limit, pool, maxAlloc, burned, created>>

\* except Exception: await db.rollback(); raise
TdRollback(p) ==
    /\ Served(p, "td_rollback")
    /\ Rollback
    /\ NoteRemoved
    /\ Finish(p)
    /\ UNCHANGED <<restVars, disk, committed, calls, limit, pool, maxAlloc, burned, created>>

TdCommit(p) ==
    /\ Served(p, "td_commit")
    /\ Commit
    /\ Resume(p, "td_emit", loc[p])
    /\ UNCHANGED <<restVars, db, calls, limit, pool, histVars>>

TdEmit(p) ==
    /\ Served(p, "td_emit")
    /\ db' = EmitInsert(db, "thread.deleted", loc[p].tid, NoSeq)
    /\ Resume(p, "td_emit_commit", loc[p])
    /\ UNCHANGED <<restVars, disk, committed, calls, limit, pool, histVars>>

TdReturn(p) ==
    /\ Served(p, "td_emit_commit")
    /\ Commit
    /\ Finish(p)
    /\ UNCHANGED <<restVars, db, calls, limit, pool, histVars>>

\* ----------------------------------------------------------- agent registry
\* An agent row is [id, token, name, activity, at, hb]: at is
\* last_activity_time and hb is last_heartbeat, both readings of the clock.
\* secrets.token_hex(32) gives every agent a token of its own, modelled by the
\* agent's id.  A name is [base, n]: n = 1 is the base name "{ide} ({model})"
\* itself, n >= 2 is "{base_name} {n}".
AgentIds(s) == {a.id : a \in s.agents}

\* SELECT token FROM agents WHERE id = ?: no row, a row with another token, or
\* a row with the token presented.
AuthCheck(s, creds) ==
    IF \A a \in s.agents : a.id # creds.agent_id THEN "unknown"
    ELSE IF \E a \in s.agents : a.id = creds.agent_id /\ a.token = creds.token THEN "ok"
    ELSE "mismatch"

\* A failure that tells which of the two was wrong.
TellingFailure(auth) == auth

\* What a caller whose check failed gets: heartbeat, unregister and
\* mark_msg_wait return False, resume raises ValueError("Invalid
\* agent_id/token"), and the REST facade turns both into 401 "Invalid
\* agent_id/token".
AuthFailure(auth) == "Invalid agent_id/token"

\* The token-gated call of coroutine p has failed its check.
AuthReply(p, op) ==
    replies' = IF loc[p].ok \/ loc[p].cancelled THEN replies
               ELSE replies \cup {[op |-> op, auth |-> loc[p].auth,
                                   resp |-> AuthFailure(loc[p].auth)]}

\* A check that looks at the id alone.
AnyToken(s, creds) == \E a \in s.agents : a.id = creds.agent_id

\* `row is None or row["token"] != token` is false.
TokenOk(s, creds) == \E a \in s.agents : a.id = creds.agent_id /\ a.token = creds.token

\* An update that sets last_heartbeat whatever touch_heartbeat says.
AlwaysTouched(hb, touch) == now

\* _set_agent_activity: last_heartbeat = now only if touch_heartbeat.
TouchedHeartbeat(hb, touch) == IF touch THEN now ELSE hb

\* An update that leaves last_activity_time as it is.
SetActivityOnly(s, id, activity, touch) ==
    [s EXCEPT !.agents =
        {IF a.id = id THEN [a EXCEPT !.activity = activity] ELSE a : a \in @}]

\* _set_agent_activity: UPDATE agents SET last_activity = ?,
\* last_activity_time = ? [, last_heartbeat = ?] WHERE id = ?
SetActivity(s, id, activity, touch) ==
    [s EXCEPT !.agents =
        {IF a.id = id
         THEN [a EXCEPT !.activity = activity, !.at = now,
                        !.hb = TouchedHeartbeat(a.hb, touch)]
         ELSE a : a \in @}]

\* agent_msg_post(db, author_id): _set_agent_activity(db, agent_id,
\* "msg_post", touch_heartbeat=False), the UPDATE.  No token is involved.
MpMark(p) ==
    /\ Served(p, "mp_mark")
    /\ db' = SetActivity(db, loc[p].author_id, "msg_post", FALSE)
    /\ Resume(p, "mp_mark_close", loc[p])
    /\ UNCHANGED <<restVars, disk, committed, calls, limit, pool, histVars>>

\* The commit of _set_agent_activity; msg_post goes on to _emit_event.
MpMarkCommit(p) ==
    /\ Served(p, "mp_mark_commit")
    /\ Commit
    /\ Resume(p, "mp_emit", loc[p])
    /\ UNCHANGED <<restVars, db, calls, limit, pool, histVars>>

\* Session registry: set_connection_agent(agent_id, token) on the connection
\* the call arrived on.
SetConnectionAgent(c, creds) == bound' = [bound EXCEPT ![c] = creds]

\* Session registry: get_connection_agent() on the connection of the call.
GetConnectionAgent(c) == bound[c]

\* Credentials a caller can present: the id of an agent that is or was
\* registered with the token of one (its own or, by mistake, another's), or
\* none.
KnownCreds ==
    {[agent_id |-> i, token |-> k] : i, k \in AgentIds(db) \cup {FirstAgent}} \cup {NoCreds}

RECURSIVE NextSuffix(_, _, _)
\* n = 2; while f"{base_name} {n}" in existing: n += 1
NextSuffix(base, existing, n) ==
    IF [base |-> base, n |-> n] \in existing THEN NextSuffix(base, existing, n + 1) ELSE n

\* A suffix for every agent, the first of its ide and model included.
AlwaysSuffixed(base, existing) == [base |-> base, n |-> NextSuffix(base, existing, 2)]

\* if base_name not in existing: name = base_name; else the suffixed name
AssignName(base, existing) ==
    IF [base |-> base, n |-> 1] \notin existing
    THEN [base |-> base, n |-> 1]
    ELSE [base |-> base, n |-> NextSuffix(base, existing, 2)]

\* agent_register is called on connection c with an ide and a model; the
\* uuid4 and the token it will draw are modelled by the number of the call.
ArCall(p) ==
    /\ Free(p)
    /\ \E c \in Conns, b \in Bases, d \in {"", "D"} :
        Begin(p, "ar_names", [NoLocals EXCEPT !.conn = c, !.base = b, !.display = d,
                                 !.creds = [agent_id |-> calls + 1, token |-> calls + 1]])
    /\ UNCHANGED <<restVars, db, disk, committed, histVars>>

\* SELECT name FROM agents WHERE name = ? OR name LIKE ?
ArNames(p) ==
    /\ Served(p, "ar_names")
    /\ Resume(p, "ar_names_fetch",
              [loc[p] EXCEPT !.names = {a.name : a \in {x \in db.agents :
                                                        x.name.base = loc[p].base}}])
    /\ UNCHANGED <<restVars, db, disk, committed, calls, limit, pool, histVars>>

\* aid = uuid4(); token = token_hex(32); INSERT INTO agents (..., name, ...,
\* last_heartbeat, token, ..., last_activity, last_activity_time) VALUES
\* (..., name, ..., now, token, ..., "registered", now)
ArInsert(p) ==
    /\ Served(p, "ar_insert")
    /\ LET name == AssignName(loc[p].base, loc[p].names) IN
       db' = [db EXCEPT !.agents = @ \cup
                {[id |-> loc[p].creds.agent_id, token |-> loc[p].creds.token,
                  name |-> name,
                  display_name |-> IF loc[p].display = "" THEN name
                                   ELSE [base |-> loc[p].display, n |-> 1],
                  activity |-> "registered", at |-> now, hb |-> now]}]
    /\ Resume(p, "ar_commit", loc[p])
    /\ UNCHANGED <<restVars, disk, committed, calls, limit, pool, histVars>>

ArCommit(p) ==
    /\ Served(p, "ar_commit")
    /\ Commit
    /\ Resume(p, "ar_emit", loc[p])
    /\ UNCHANGED <<restVars, db, calls, limit, pool, histVars>>

ArEmit(p) ==
    /\ Served(p, "ar_emit")
    /\ db' = EmitInsert(db, "agent.online", NoThread, NoSeq)
    /\ Resume(p, "ar_emit_commit", loc[p])
    /\ UNCHANGED <<restVars, disk, committed, calls, limit, pool, histVars>>

\* The commit of _emit_event; agent_register returns and handle_agent_register
\* binds the new agent to the connection.
ArReturn(p) ==
    /\ Served(p, "ar_emit_commit")
    /\ Commit
    /\ IF loc[p].cancelled THEN UNCHANGED bound
       ELSE SetConnectionAgent(loc[p].conn, loc[p].creds)
    /\ Finish(p)
    /\ UNCHANGED <<now, waits, client, sent, db, calls, limit, pool, histVars, replies>>

\* agent_heartbeat is called on connection c with (agent_id, token).
AhCall(p) ==
    /\ Free(p)
    /\ \E c \in Conns, cr \in KnownCreds \ {NoCreds} :
        Begin(p, "ah_auth", [NoLocals EXCEPT !.conn = c, !.creds = cr])
    /\ UNCHANGED <<restVars, db, disk, committed, histVars>>

\* SELECT token FROM agents WHERE id = ?
AhAuth(p) ==
    /\ Served(p, "ah_auth")
    /\ Resume(p, "ah_auth_fetch", [loc[p] EXCEPT !.ok = TokenOk(db, loc[p].creds),
                                            !.auth = AuthCheck(db, loc[p].creds)])
    /\ UNCHANGED <<restVars, db, disk, committed, calls, limit, pool, histVars>>

\* if row is None or row["token"] != token: return False
AhAuthClose(p) ==
    /\ Served(p, "ah_auth_close")
    /\ IF loc[p].ok THEN Resume(p, "ah_mark", loc[p]) ELSE Finish(p)
    /\ AuthReply(p, "heartbeat")
    /\ UNCHANGED <<now, bound, waits, client, sent, db, disk, committed, calls, limit, pool, histVars>>

\* _set_agent_activity(db, agent_id, "heartbeat", touch_heartbeat=True): the
\* UPDATE; updated = cur.rowcount
AhMark(p) ==
    /\ Served(p, "ah_mark")
    /\ db' = SetActivity(db, loc[p].creds.agent_id, "heartbeat", TRUE)
    /\ Resume(p, "ah_mark_close",
              [loc[p] EXCEPT !.ok = loc[p].creds.agent_id \in AgentIds(db)])
    /\ UNCHANGED <<restVars, disk, committed, calls, limit, pool, histVars>>

\* The commit of _set_agent_activity; handle_agent_heartbeat binds the agent
\* to the connection when ok.
AhReturn(p) ==
    /\ Served(p, "ah_mark_commit")
    /\ Commit
    /\ IF loc[p].cancelled \/ ~loc[p].ok THEN UNCHANGED bound
       ELSE SetConnectionAgent(loc[p].conn, loc[p].creds)
    /\ Finish(p)
    /\ UNCHANGED <<now, waits, client, sent, db, calls, limit, pool, histVars, replies>>

\* agent_resume is called on connection c with (agent_id, token).
AuCall(p) ==
    /\ Free(p)
    /\ \E c \in Conns, cr \in KnownCreds \ {NoCreds} :
        Begin(p, "au_auth", [NoLocals EXCEPT !.conn = c, !.creds = cr])
    /\ UNCHANGED <<restVars, db, disk, committed, histVars>>

AuAuth(p) ==
    /\ Served(p, "au_auth")
    /\ Resume(p, "au_auth_fetch", [loc[p] EXCEPT !.ok = TokenOk(db, loc[p].creds),
                                            !.auth = AuthCheck(db, loc[p].creds)])
    /\ UNCHANGED <<restVars, db, disk, committed, calls, limit, pool, histVars>>

\* if row is None or row["token"] != token: raise ValueError
AuAuthClose(p) ==
    /\ Served(p, "au_auth_close")
    /\ IF loc[p].ok THEN Resume(p, "au_mark", loc[p]) ELSE Finish(p)
    /\ AuthReply(p, "resume")
    /\ UNCHANGED <<now, bound, waits, client, sent, db, disk, committed, calls, limit, pool, histVars>>

\* _set_agent_activity(db, agent_id, "resume", touch_heartbeat=True): the UPDATE
AuMark(p) ==
    /\ Served(p, "au_mark")
    /\ db' = SetActivity(db, loc[p].creds.agent_id, "resume", TRUE)
    /\ Resume(p, "au_mark_close", loc[p])
    /\ UNCHANGED <<restVars, disk, committed, calls, limit, pool, histVars>>

AuMarkCommit(p) ==
    /\ Served(p, "au_mark_commit")
    /\ Commit
    /\ Resume(p, "au_reload", loc[p])
    /\ UNCHANGED <<restVars, db, calls, limit, pool, histVars>>

\* SELECT * FROM agents WHERE id = ?
AuReload(p) ==
    /\ Served(p, "au_reload")
    /\ Resume(p, "au_reload_fetch",
              [loc[p] EXCEPT !.ok = loc[p].creds.agent_id \in AgentIds(db)])
    /\ UNCHANGED <<restVars, db, disk, committed, calls, limit, pool, histVars>>

\* if refreshed is None: raise ValueError("Agent not found after resume")
AuReloadClose(p) ==
    /\ Served(p, "au_reload_close")
    /\ IF loc[p].ok THEN Resume(p, "au_emit", loc[p]) ELSE Finish(p)
    /\ UNCHANGED <<restVars, db, disk, committed, calls, limit, pool, histVars>>

AuEmit(p) ==
    /\ Served(p, "au_emit")
    /\ db' = EmitInsert(db, "agent.online", NoThread, NoSeq)
    /\ Resume(p, "au_emit_commit", loc[p])
    /\ UNCHANGED <<restVars, disk, committed, calls, limit, pool, histVars>>

\* The commit of _emit_event; agent_resume returns and handle_agent_resume
\* binds the agent to the connection.
AuReturn(p) ==
    /\ Served(p, "au_emit_commit")
    /\ Commit
    /\ IF loc[p].cancelled THEN UNCHANGED bound
       ELSE SetConnectionAgent(loc[p].conn, loc[p].creds)
    /\ Finish(p)
    /\ UNCHANGED <<now, waits, client, sent, db, calls, limit, pool, histVars, replies>>

\* agent_unregister is called with (agent_id, token).
AnCall(p) ==
    /\ Free(p)
    /\ \E c \in Conns, cr \in KnownCreds \ {NoCreds} :
        Begin(p, "an_auth", [NoLocals EXCEPT !.conn = c, !.creds = cr])
    /\ UNCHANGED <<restVars, db, disk, committed, histVars>>

AnAuth(p) ==
    /\ Served(p, "an_auth")
    /\ Resume(p, "an_auth_fetch", [loc[p] EXCEPT !.ok = TokenOk(db, loc[p].creds),
                                            !.auth = AuthCheck(db, loc[p].creds)])
    /\ UNCHANGED <<restVars, db, disk, committed, calls, limit, pool, histVars>>

\* if row is None or row["token"] != token: return False
AnAuthClose(p) ==
    /\ Served(p, "an_auth_close")
    /\ IF loc[p].ok THEN Resume(p, "an_delete", loc[p]) ELSE Finish(p)
    /\ AuthReply(p, "unregister")
    /\ UNCHANGED <<now, bound, waits, client, sent, db, disk, committed, calls, limit, pool, histVars>>

\* DELETE FROM agents WHERE id = ?
AnDelete(p) ==
    /\ Served(p, "an_delete")
    /\ db' = [db EXCEPT !.agents = {a \in @ : a.id # loc[p].creds.agent_id}]
    /\ Resume(p, "an_commit", loc[p])
    /\ UNCHANGED <<restVars, disk, committed, calls, limit, pool, histVars>>

AnCommit(p) ==
    /\ Served(p, "an_commit")
    /\ Commit
    /\ Resume(p, "an_emit", loc[p])
    /\ UNCHANGED <<restVars, db, calls, limit, pool, histVars>>

AnEmit(p) ==
    /\ Served(p, "an_emit")
    /\ db' = EmitInsert(db, "agent.offline", NoThread, NoSeq)
    /\ Resume(p, "an_emit_commit", loc[p])
    /\ UNCHANGED <<restVars, disk, committed, calls, limit, pool, histVars>>

AnReturn(p) ==
    /\ Served(p, "an_emit_commit")
    /\ Commit
    /\ Finish(p)
    /\ UNCHANGED <<restVars, db, calls, limit, pool, histVars>>

\* --------------------------------------------------------------- agent_list
\* AGENT_HEARTBEAT_TIMEOUT (30 s by default), in units of the clock, scaled
\* down to the length of a behaviour.
HeartbeatTimeout == 2

\* An agent that stays online through the instant the timeout has elapsed.
OnlineThrough(hb, t) == t - hb <= HeartbeatTimeout

\* _row_to_agent: elapsed = now - last_heartbeat;
\* is_online = elapsed < AGENT_HEARTBEAT_TIMEOUT
IsOnline(hb, t) == t - hb < HeartbeatTimeout

\* The two surfaces of agent.list: GET /api/agents (api_agents) and the
\* agent_list tool (handle_agent_list).
Surfaces == {"rest", "tool"}

\* The token field of an entry of the result: api_agents writes
\* "token": a.token, handle_agent_list writes no token.
ListedToken(surface, token) == IF surface = "rest" THEN token ELSE NoAgent

AlCall(p) ==
    /\ Free(p)
    /\ \E s \in Surfaces : Begin(p, "al_select", [NoLocals EXCEPT !.surface = s])
    /\ UNCHANGED <<restVars, db, disk, committed, histVars>>

\* SELECT * FROM agents ORDER BY registered_at
AlSelect(p) ==
    /\ Served(p, "al_select")
    /\ Resume(p, "al_fetch", [loc[p] EXCEPT !.atCall = db.agents])
    /\ UNCHANGED <<restVars, db, disk, committed, calls, limit, pool, histVars>>

\* The cursor is closed; return [_row_to_agent(r) for r in rows], of which the
\* surface writes its fields.
AlReturn(p) ==
    /\ Served(p, "al_close")
    /\ replies' = IF loc[p].cancelled THEN replies
                  ELSE replies \cup
                    {[op |-> "agent_list", surface |-> loc[p].surface, at |-> now,
                      agents |-> {[id |-> a.id, last_heartbeat |-> a.hb,
                                   last_activity |-> a.activity,
                                   last_activity_time |-> a.at,
                                   is_online |-> IsOnline(a.hb, now),
                                   token |-> ListedToken(loc[p].surface, a.token)] :
                                  a \in loc[p].atCall}]}
    /\ Finish(p)
    /\ UNCHANGED <<now, bound, waits, client, sent, db, disk, committed, calls, limit, pool, histVars>>

\* ----------------------------------------------------------------- msg_wait
\* The seq of the row msg_list synthesises for the system prompt.
SystemPromptSeq == 0

RECURSIVE Ascending(_)
\* ORDER BY seq ASC
Ascending(S) ==
    IF S = {} THEN <<>>
    ELSE LET lo == CHOOSE x \in S : \A y \in S : x <= y
         IN <<lo>> \o Ascending(S \ {lo})

\* A variant whose SELECT leaves out the condition on thread_id.
StoredAnyThread(s, tid, after) ==
    {m.seq : m \in {x \in s.messages : x.seq > after}}

\* SELECT * FROM messages WHERE thread_id = ? AND seq > ? (the rows' seqs).
\* LIMIT 100 is beyond the number of messages a behaviour stores.
StoredAfter(s, tid, after) ==
    {m.seq : m \in {x \in s.messages : x.thread_id = tid /\ x.seq > after}}

\* A variant that returns the newest matching row only.
NewestOnly(s, tid, after) ==
    LET S == StoredAfter(s, tid, after)
    IN IF S = {} THEN <<>> ELSE <<CHOOSE x \in S : \A y \in S : y <= x>>

\* msg_list up to the decision to add the system prompt row.
MsgListRows(s, tid, after) == Ascending(StoredAfter(s, tid, after))

\* A variant that adds the system prompt row whatever after_seq is.
AlwaysSystemPrompt(include, after) == include

\* msg_list: if include_system_prompt and after_seq == 0
WantsSystemPrompt(include, after) == include /\ after = 0

\* The two implementations of the msg_wait tool: handle_msg_wait polls
\* msg_list(..., include_system_prompt=False), call_tool polls msg_list with
\* the default include_system_prompt=True.
WaitHandlers == {"dispatch", "call_tool"}
IncludeSystemPrompt(handler) == handler = "call_tool"

\* The coroutine awaits a timer, not the connection.
Park(p, label, locals) ==
    IF loc[p].cancelled
    THEN Finish(p)
    ELSE /\ pc' = [pc EXCEPT ![p] = label]
         /\ loc' = [loc EXCEPT ![p] = locals]
         /\ queue' = Without(queue, p)

\* asyncio.wait_for(_poll(), timeout=timeout_s) starts.  A timeout of 0 has
\* expired before the first poll can complete.
StartPoll(p, locals) ==
    LET l == [locals EXCEPT !.deadline = now + locals.timeout] IN
    IF locals.timeout = 0
    THEN Park(p, "wt_expired", l)
    ELSE Resume(p, "wt_poll", l)

\* `agent_id = explicit_agent_id or connection_agent_id` and the same for
\* the token.
EffectiveCreds(explicit, connection) ==
    [agent_id |-> IF explicit.agent_id # NoAgent THEN explicit.agent_id ELSE connection.agent_id,
     token |-> IF explicit.token # NoAgent THEN explicit.token ELSE connection.token]

\* The msg_wait call has returned `result`.
NoteWait(p, result) ==
    waits' = IF loc[p].cancelled THEN waits
             ELSE waits \cup {[handler |-> loc[p].handler, tid |-> loc[p].tid,
                               after |-> loc[p].after, timeout |-> loc[p].timeout,
                               deadline |-> loc[p].deadline, atCall |-> loc[p].atCall,
                               result |-> result]}

\* msg_wait is called on connection c.  call_tool reads no credentials;
\* handle_msg_wait resolves them and records the activity when it has both.
WtCall(p) ==
    /\ Free(p)
    /\ \E c \in Conns, h \in WaitHandlers, tid \in ThreadIds(db),
          after \in 0 .. MaxAfter, t \in 0 .. MaxTimeout,
          ea \in {k.agent_id : k \in KnownCreds}, et \in {k.token : k \in KnownCreds} :
        LET ex == [agent_id |-> ea, token |-> et]
            cr == EffectiveCreds(ex, GetConnectionAgent(c))
            l == [NoLocals EXCEPT !.conn = c, !.handler = h, !.tid = tid, !.after = after,
                     !.timeout = t, !.explicit = ex, !.creds = cr,
                     !.atCall = StoredAfter(db, tid, after)]
        IN /\ h = "call_tool" => ex = NoCreds
           /\ pc[p] = "idle"
           /\ IF h = "dispatch" /\ cr.agent_id # NoAgent /\ cr.token # NoAgent
              THEN Begin(p, "wt_auth", l)
              ELSE /\ calls' = calls + 1
                   /\ UNCHANGED <<limit, pool>>
                   /\ LET d == [l EXCEPT !.deadline = now + t] IN
                      IF t = 0
                      THEN /\ pc' = [pc EXCEPT ![p] = "wt_expired"]
                           /\ loc' = [loc EXCEPT ![p] = d]
                           /\ UNCHANGED queue
                      ELSE /\ pc' = [pc EXCEPT ![p] = "wt_poll"]
                           /\ loc' = [loc EXCEPT ![p] = d]
                           /\ queue' = Append(queue, p)
    /\ UNCHANGED <<restVars, db, disk, committed, histVars>>

\* agent_msg_wait: SELECT token FROM agents WHERE id = ?
WtAuth(p) ==
    /\ Served(p, "wt_auth")
    /\ Resume(p, "wt_auth_fetch", [loc[p] EXCEPT !.ok = TokenOk(db, loc[p].creds),
                                            !.auth = AuthCheck(db, loc[p].creds)])
    /\ UNCHANGED <<restVars, db, disk, committed, calls, limit, pool, histVars>>

\* if row is None or row["token"] != token: return False
WtAuthClose(p) ==
    /\ Served(p, "wt_auth_close")
    /\ IF loc[p].ok THEN Resume(p, "wt_mark", loc[p]) ELSE StartPoll(p, loc[p])
    /\ AuthReply(p, "msg_wait")
    /\ UNCHANGED <<now, bound, waits, client, sent, db, disk, committed, calls, limit, pool, histVars>>

\* _set_agent_activity(db, agent_id, "msg_wait", touch_heartbeat=False): the UPDATE
WtMark(p) ==
    /\ Served(p, "wt_mark")
    /\ db' = SetActivity(db, loc[p].creds.agent_id, "msg_wait", FALSE)
    /\ Resume(p, "wt_mark_close", loc[p])
    /\ UNCHANGED <<restVars, disk, committed, calls, limit, pool, histVars>>

\* The commit of _set_agent_activity; the poll loop starts.
WtMarkCommit(p) ==
    /\ Served(p, "wt_mark_commit")
    /\ Commit
    /\ StartPoll(p, loc[p])
    /\ UNCHANGED <<restVars, db, calls, limit, pool, histVars>>

\* _poll: msg_list, the SELECT on messages
WtPoll(p) ==
    /\ Served(p, "wt_poll")
    /\ Resume(p, "wt_fetch", [loc[p] EXCEPT !.rows = MsgListRows(db, loc[p].tid, loc[p].after)])
    /\ UNCHANGED <<restVars, db, disk, committed, calls, limit, pool, histVars>>

\* The cursor is closed.  msg_list goes on to read the thread's system
\* prompt, or returns the rows: `if msgs: return msgs`, else
\* `await asyncio.sleep(0.5)`.
WtPolled(p) ==
    /\ Served(p, "wt_close")
    /\ IF WantsSystemPrompt(IncludeSystemPrompt(loc[p].handler), loc[p].after)
       THEN Resume(p, "wt_sys", loc[p]) /\ UNCHANGED waits
       ELSE IF loc[p].rows # <<>>
       THEN NoteWait(p, loc[p].rows) /\ Finish(p)
       ELSE Park(p, "wt_sleep", [loc[p] EXCEPT !.wake = now + 1]) /\ UNCHANGED waits
    /\ UNCHANGED <<now, bound, client, sent, db, disk, committed, calls, limit, pool, histVars, replies>>

\* msgs.insert(0, sys_msg); the list is not empty and _poll returns it.
WtSysReturn(p) ==
    /\ Served(p, "wt_sys_close")
    /\ NoteWait(p, <<SystemPromptSeq>> \o loc[p].rows)
    /\ Finish(p)
    /\ UNCHANGED <<now, bound, client, sent, db, disk, committed, calls, limit, pool, histVars, replies>>

\* asyncio.sleep(0.5) is over before the timeout of wait_for: poll again.
WtWake(p) ==
    /\ pc[p] = "wt_sleep"
    /\ now >= loc[p].wake
    /\ loc[p].wake < loc[p].deadline
    /\ pc' = [pc EXCEPT ![p] = "wt_poll"]
    /\ queue' = Append(queue, p)
    /\ UNCHANGED <<restVars, db, disk, committed, loc, calls, limit, pool, histVars>>

\* except asyncio.TimeoutError: msgs = []
WtTimeout(p) ==
    /\ pc[p] \in {"wt_expired", "wt_poll", "wt_fetch", "wt_close", "wt_sys", "wt_sys_fetch",
                  "wt_sys_close", "wt_sleep"}
    /\ now >= loc[p].deadline
    /\ NoteWait(p, <<>>)
    /\ Finish(p)
    /\ UNCHANGED <<now, bound, client, sent, db, disk, committed, calls, limit, pool, histVars, replies>>

\* A timer of coroutine p is due: the timeout of wait_for, or the end of
\* asyncio.sleep(0.5).
TimerDue(p) ==
    \/ /\ pc[p] = "ss_sleep"
       /\ now >= loc[p].wake
    \/ /\ pc[p] \in {"wt_expired", "wt_sleep"}
       /\ now >= loc[p].deadline
    \/ /\ pc[p] = "wt_sleep"
       /\ now >= loc[p].wake

\* Half a second passes.  Requests to the connection and due timers take
\* far less: the clock moves on when none is outstanding.
Tick ==
    /\ now < MaxTime
    /\ queue = <<>>
    /\ \A p \in Procs : ~TimerDue(p)
    /\ now' = now + 1
    /\ UNCHANGED <<db, disk, committed, queue, pc, loc, calls, limit, pool, histVars, replies, bound, waits, client, sent>>

\* ------------------------------------------------------- global_sse_stream
\* events_since(db, after_id, limit: int = 50)
DefaultLimit == 50

\* A result that ignores LIMIT.
Unlimited(rows, lim) == rows

\* LIMIT ?: the first `lim` rows of the ordered result.
Limited(rows, lim) == SubSeq(rows, 1, IF Len(rows) < lim THEN Len(rows) ELSE lim)

\* events_since: SELECT * FROM events WHERE id > ? ORDER BY id ASC LIMIT ?
\* (the rows' ids).
EventsSince(s, after, lim) ==
    Limited(Ascending({e.id : e \in {x \in s.events : x.id > after}}), lim)

\* event_generator: last_id = 0, whatever the request carries.
StartAfter(presented) == NoEvent

\* GET /events: the console connects, presenting the last event id it has
\* seen; event_generator starts.
SsConnect(p) ==
    /\ Free(p)
    /\ ~client.connected
    /\ client' = [client EXCEPT !.connected = TRUE, !.presented = client.seen]
    /\ sent' = <<>>
    /\ Begin(p, "ss_poll", [NoLocals EXCEPT !.last = StartAfter(client.seen)])
    /\ UNCHANGED <<now, bound, waits, db, disk, committed, histVars, replies>>

\* crud.events_since(db, after_id=last_id): the SELECT
SsPoll(p) ==
    /\ Served(p, "ss_poll")
    /\ Resume(p, "ss_fetch", [loc[p] EXCEPT !.rows = EventsSince(db, loc[p].last, DefaultLimit)])
    /\ UNCHANGED <<restVars, db, disk, committed, calls, limit, pool, histVars>>

\* The cursor is closed and events_since returns; with no event to yield,
\* await asyncio.sleep(0.5).
SsPolled(p) ==
    /\ Served(p, "ss_close")
    /\ IF loc[p].rows = <<>>
       THEN Park(p, "ss_sleep", [loc[p] EXCEPT !.wake = now + 1])
       ELSE Park(p, "ss_send", loc[p])
    /\ UNCHANGED <<restVars, db, disk, committed, calls, limit, pool, histVars>>

\* for ev in events: last_id = ev.id; yield f"id: {ev.id}..."; after the last
\* one, await asyncio.sleep(0.5).
SsYield(p) ==
    /\ pc[p] = "ss_send"
    /\ LET id == Head(loc[p].rows)
           rest == Tail(loc[p].rows)
       IN /\ sent' = Append(sent, id)
          /\ client' = [client EXCEPT !.seen = IF id > @ THEN id ELSE @]
          /\ pc' = [pc EXCEPT ![p] = IF rest = <<>> THEN "ss_sleep" ELSE "ss_send"]
          /\ loc' = [loc EXCEPT ![p].last = id, ![p].rows = rest, ![p].wake = now + 1]
    /\ UNCHANGED <<now, bound, waits, db, disk, committed, queue, calls, limit, pool, histVars, replies>>

\* The sleep is over: `if await request.is_disconnected(): break`, else poll
\* again.
SsWake(p) ==
    /\ pc[p] = "ss_sleep"
    /\ now >= loc[p].wake
    /\ pc' = [pc EXCEPT ![p] = "ss_poll"]
    /\ queue' = Append(queue, p)
    /\ UNCHANGED <<restVars, db, disk, committed, loc, calls, limit, pool, histVars>>

\* The console disconnects; the streaming response cancels event_generator.
SsDisconnect(p) ==
    /\ pc[p] \in {"ss_poll", "ss_fetch", "ss_close", "ss_send", "ss_sleep"}
    /\ client' = [client EXCEPT !.connected = FALSE]
    /\ Finish(p)
    /\ UNCHANGED <<now, bound, waits, sent, db, disk, committed, calls, limit, pool, histVars, replies>>

\* -------------------------------------------------------- events_delete_old
\* _cleanup_events_loop: events_delete_old(db, max_age_seconds=600); the age
\* in units of the clock, scaled down to the length of a behaviour.
EventMaxAge == 1

\* cutoff = now - max_age_seconds
EpCall(p) ==
    /\ Free(p)
    /\ Begin(p, "ep_delete", [NoLocals EXCEPT !.cutoff = now - EventMaxAge])
    /\ UNCHANGED <<restVars, db, disk, committed, histVars>>

\* DELETE FROM events WHERE created_at < ?
EpDelete(p) ==
    /\ Served(p, "ep_delete")
    /\ db' = [db EXCEPT !.events = {e \in @ : ~(e.at < loc[p].cutoff)}]
    /\ Resume(p, "ep_delete_close", loc[p])
    /\ UNCHANGED <<restVars, disk, committed, calls, limit, pool, histVars>>

EpCommit(p) ==
    /\ Served(p, "ep_commit")
    /\ Commit
    /\ Finish(p)
    /\ UNCHANGED <<restVars, db, calls, limit, pool, histVars>>

\* ------------------------------------------------------------- events_since
\* events_since(db, after_id, limit) is called by a consumer that passes the
\* checkpoint it holds.
EsCall(p) ==
    /\ Free(p)
    /\ \E after \in 0 .. db.evseq, lim \in 1 .. MaxLimit :
        Begin(p, "es_select", [NoLocals EXCEPT !.last = after, !.cnt = lim])
    /\ UNCHANGED <<restVars, db, disk, committed, histVars>>

\* The SELECT; atCall keeps the ids the table holds when it runs.
EsSelect(p) ==
    /\ Served(p, "es_select")
    /\ Resume(p, "es_fetch",
              [loc[p] EXCEPT !.rows = EventsSince(db, loc[p].last, loc[p].cnt),
                             !.atCall = {e.id : e \in db.events}])
    /\ UNCHANGED <<restVars, db, disk, committed, calls, limit, pool, histVars>>

\* The cursor is closed; return [Event(...) for row in rows].
EsReturn(p) ==
    /\ Served(p, "es_close")
    /\ replies' = IF loc[p].cancelled THEN replies
                  ELSE replies \cup {[op |-> "events_since", after |-> loc[p].last,
                                      limit |-> loc[p].cnt, rows |-> loc[p].rows,
                                      retained |-> loc[p].atCall]}
    /\ Finish(p)
    /\ UNCHANGED <<now, bound, waits, client, sent, db, disk, committed, calls, limit, pool, histVars>>

\* ------------------------------------------------------------- cancellation
\* asyncio.wait_for(..., timeout=DB_TIMEOUT) of the REST facade cancels the
\* coroutine at the await it is suspended at.  The request it awaits stays
\* with the worker thread and is still served; nothing is rolled back, and
\* what the coroutine wrote stays pending on the shared connection.
Cancel(p) ==
    /\ pc[p] # "idle"
    /\ ~loc[p].cancelled
    /\ loc' = [loc EXCEPT ![p].cancelled = TRUE]
    /\ UNCHANGED <<restVars, db, disk, committed, queue, pc, calls, limit, pool, histVars>>

\* ------------------- thread_set_state, thread_archive, thread_unarchive,
\* ------------------- thread_close
\* A variant of thread_set_state that takes any state.
AnyState == {"discuss", "implement", "review", "done", "closed", "archived", "nonsense"}

\* thread_set_state: valid = {"discuss", "implement", "review", "done",
\* "closed", "archived"}
ValidStates == {"discuss", "implement", "review", "done", "closed", "archived"}

\* One of the four operations is called on a thread id.  thread_set_state
\* with a state outside valid raises ValueError before it touches the
\* connection.  thread_archive is thread_set_state(id, "archived") followed
\* by the event thread.archived, thread_unarchive is thread_set_state(id,
\* "discuss") followed by thread.unarchived; thread_close emits thread.closed.
TsCall(p) ==
    /\ Free(p)
    /\ \E op \in {"thread_set_state", "thread_archive", "thread_unarchive", "thread_close"},
          tid \in NameableThreads, given \in ValidStates \cup {"nonsense"} :
        LET state == CASE op = "thread_set_state" -> given
                       [] op = "thread_archive" -> "archived"
                       [] op = "thread_unarchive" -> "discuss"
                       [] op = "thread_close" -> "closed"
            emits == CASE op = "thread_set_state" -> <<"thread.state">>
                       [] op = "thread_archive" -> <<"thread.state", "thread.archived">>
                       [] op = "thread_unarchive" -> <<"thread.state", "thread.unarchived">>
                       [] op = "thread_close" -> <<"thread.closed">>
        IN /\ op # "thread_set_state" => given = "discuss"
           /\ IF state \notin ValidStates
              THEN /\ calls' = calls + 1
                   /\ replies' = replies \cup
                        {[op |-> op, tid |-> tid, state |-> state, ok |-> FALSE,
                          error |-> "ValueError", last |-> db.evseq]}
                   /\ UNCHANGED <<limit, pool, pc, loc, queue>>
              ELSE /\ Begin(p, "ts_update",
                            [NoLocals EXCEPT !.op = op, !.tid = tid, !.state = state,
                                             !.emits = emits])
                   /\ UNCHANGED replies
    /\ UNCHANGED <<now, bound, waits, client, sent, db, disk, committed, histVars>>

\* thread_set_state: UPDATE threads SET status = ? WHERE id = ?; updated =
\* cur.rowcount.  thread_close: UPDATE threads SET status = 'closed',
\* closed_at = ?, summary = ? WHERE id = ?.
TsUpdate(p) ==
    /\ Served(p, "ts_update")
    /\ db' = [db EXCEPT !.threads =
                {IF t.id # loc[p].tid THEN t
                 ELSE IF loc[p].op = "thread_close"
                 THEN [t EXCEPT !.status = "closed", !.closed_at = {now}]
                 ELSE [t EXCEPT !.status = loc[p].state] : t \in @}]
    /\ Resume(p, IF loc[p].op = "thread_close" THEN "ts_commit" ELSE "ts_update_close",
              [loc[p] EXCEPT !.cnt = Cardinality({t \in db.threads : t.id = loc[p].tid}),
                             !.last = db.evseq])
    /\ UNCHANGED <<restVars, disk, committed, calls, limit, pool, histVars>>

\* await db.commit().  thread_set_state: if updated == 0: return False, and
\* thread_archive and thread_unarchive: if not ok: return False.
\* thread_close goes on whatever the UPDATE matched.
TsCommit(p) ==
    /\ Served(p, "ts_commit")
    /\ Commit
    /\ IF loc[p].op # "thread_close" /\ loc[p].cnt = 0
       THEN /\ replies' = IF loc[p].cancelled THEN replies
                          ELSE replies \cup
                            {[op |-> loc[p].op, tid |-> loc[p].tid, state |-> loc[p].state,
                              ok |-> FALSE, error |-> "", last |-> loc[p].last]}
            /\ Finish(p)
       ELSE Resume(p, "ts_emit", loc[p]) /\ UNCHANGED replies
    /\ UNCHANGED <<now, bound, waits, client, sent, db, calls, limit, pool, histVars>>

\* _emit_event(db, event_type, thread_id, ...): the INSERT of the next event
\* the operation emits.
TsEmit(p) ==
    /\ Served(p, "ts_emit")
    /\ db' = EmitInsert(db, Head(loc[p].emits), loc[p].tid, NoSeq)
    /\ Resume(p, "ts_emit_commit", loc[p])
    /\ UNCHANGED <<restVars, disk, committed, calls, limit, pool, histVars>>

\* The commit of _emit_event; thread_archive and thread_unarchive go on to
\* their own event after thread_set_state has returned True; return True.
TsEmitted(p) ==
    /\ Served(p, "ts_emit_commit")
    /\ Commit
    /\ IF Tail(loc[p].emits) # <<>>
       THEN Resume(p, "ts_emit", [loc[p] EXCEPT !.emits = Tail(@)]) /\ UNCHANGED replies
       ELSE /\ replies' = IF loc[p].cancelled THEN replies
                          ELSE replies \cup
                            {[op |-> loc[p].op, tid |-> loc[p].tid, state |-> loc[p].state,
                              ok |-> TRUE, error |-> "", last |-> loc[p].last]}
            /\ Finish(p)
    /\ UNCHANGED <<now, bound, waits, client, sent, db, calls, limit, pool, histVars>>

\* ------------------------------------------------------ thread_timeout_sweep
\* thread_timeout_sweep(db, timeout_minutes), the timeout in units of the
\* clock: if timeout_minutes <= 0: return []; cutoff = now - timeout.
SwCall(p) ==
    /\ Free(p)
    /\ \E t \in 0 .. MaxTimeout :
        IF t <= 0
        THEN /\ calls' = calls + 1
             /\ replies' = replies \cup
                    {[op |-> "thread_timeout_sweep", timeout |-> t, closed |-> <<>>]}
             /\ UNCHANGED <<limit, pool, pc, loc, queue>>
        ELSE /\ Begin(p, "sw_select", [NoLocals EXCEPT !.timeout = t, !.cutoff = now - t])
             /\ UNCHANGED replies
    /\ UNCHANGED <<now, bound, waits, client, sent, db, disk, committed, histVars>>

\* SELECT t.id, t.topic, COALESCE(MAX(m.created_at), t.created_at) AS
\* last_activity FROM threads t LEFT JOIN messages m ON m.thread_id = t.id
\* WHERE t.status = 'discuss' GROUP BY t.id HAVING last_activity < ?
SwSelect(p) ==
    /\ Served(p, "sw_select")
    /\ LET last(t) == IF HasMessages(db, t.id)
                      THEN CHOOSE a \in {m.created_at : m \in {x \in db.messages :
                                                               x.thread_id = t.id}} :
                               \A m \in db.messages : m.thread_id = t.id => m.created_at <= a
                      ELSE t.created_at
       IN Resume(p, "sw_fetch",
                 [loc[p] EXCEPT !.atCall = {t.id : t \in {u \in db.threads :
                                               u.status = "discuss" /\ last(u) < loc[p].cutoff}}])
    /\ UNCHANGED <<restVars, db, disk, committed, calls, limit, pool, histVars>>

\* The cursor is closed; `for row in rows:` starts, or, with no row,
\* closed_ids is empty and the sweep returns it without a commit.
SwClosed(p) ==
    /\ Served(p, "sw_close")
    /\ IF loc[p].atCall = {}
       THEN /\ replies' = IF loc[p].cancelled THEN replies
                          ELSE replies \cup
                            {[op |-> "thread_timeout_sweep", timeout |-> loc[p].timeout,
                              closed |-> <<>>]}
            /\ Finish(p)
       ELSE \E tid \in loc[p].atCall :
                /\ Resume(p, "sw_update", [loc[p] EXCEPT !.tid = tid, !.atCall = @ \ {tid}])
                /\ UNCHANGED replies
    /\ UNCHANGED <<now, bound, waits, client, sent, db, disk, committed, calls, limit, pool, histVars>>

\* UPDATE threads SET status = 'closed', closed_at = ? WHERE id = ?
SwUpdate(p) ==
    /\ Served(p, "sw_update")
    /\ db' = [db EXCEPT !.threads =
                {IF t.id = loc[p].tid THEN [t EXCEPT !.status = "closed", !.closed_at = {now}]
                 ELSE t : t \in @}]
    /\ Resume(p, "sw_emit", loc[p])
    /\ UNCHANGED <<restVars, disk, committed, calls, limit, pool, histVars>>

\* _emit_event(db, "thread.timeout", thread_id, ...): the INSERT
SwEmit(p) ==
    /\ Served(p, "sw_emit")
    /\ db' = EmitInsert(db, "thread.timeout", loc[p].tid, NoSeq)
    /\ Resume(p, "sw_emit_commit", loc[p])
    /\ UNCHANGED <<restVars, disk, committed, calls, limit, pool, histVars>>

\* The commit of _emit_event; closed_ids.append(thread_id); the next row, or
\* after the last one `if closed_ids: await db.commit()`.
SwEmitted(p) ==
    /\ Served(p, "sw_emit_commit")
    /\ Commit
    /\ LET l == [loc[p] EXCEPT !.rows = Append(@, loc[p].tid)] IN
       IF loc[p].atCall = {}
       THEN Resume(p, "sw_commit", l)
       ELSE \E tid \in loc[p].atCall :
                Resume(p, "sw_update", [l EXCEPT !.tid = tid, !.atCall = @ \ {tid}])
    /\ UNCHANGED <<restVars, db, calls, limit, pool, histVars>>

\* await db.commit(); return closed_ids
SwCommit(p) ==
    /\ Served(p, "sw_commit")
    /\ Commit
    /\ replies' = IF loc[p].cancelled THEN replies
                  ELSE replies \cup
                    {[op |-> "thread_timeout_sweep", timeout |-> loc[p].timeout,
                      closed |-> loc[p].rows]}
    /\ Finish(p)
    /\ UNCHANGED <<now, bound, waits, client, sent, db, calls, limit, pool, histVars>>

\* -------------------------------------------------------------- thread_list
\* A variant whose SELECT has no WHERE clause.
ListedAll(t, status, include_archived) == TRUE

\* thread_list: `if status:` WHERE status = ?; `if include_archived:` no
\* WHERE clause; else WHERE status != 'archived'.  No status is "".
Listed(t, status, include_archived) ==
    IF status # "" THEN t.status = status
    ELSE IF include_archived THEN TRUE
    ELSE t.status # "archived"

\* handle_thread_list: crud.thread_list(db, status, include_archived), both
\* arguments taken from the call.
TlCall(p) ==
    /\ Free(p)
    /\ \E status \in ValidStates \cup {""}, include \in BOOLEAN :
        Begin(p, "tl_select", [NoLocals EXCEPT !.state = status, !.include = include])
    /\ UNCHANGED <<restVars, db, disk, committed, histVars>>

\* SELECT * FROM threads [WHERE ...] ORDER BY created_at DESC: the rows in
\* any order that has no later created_at after an earlier one.
TlSelect(p) ==
    /\ Served(p, "tl_select")
    /\ LET rows == {t \in db.threads : Listed(t, loc[p].state, loc[p].include)} IN
       \E q \in [1 .. Cardinality(rows) -> rows] :
           /\ \A i, j \in DOMAIN q : i < j => q[i] # q[j] /\ q[i].created_at >= q[j].created_at
           /\ Resume(p, "tl_fetch", [loc[p] EXCEPT !.rows = q])
    /\ UNCHANGED <<restVars, db, disk, committed, calls, limit, pool, histVars>>

\* The cursor is closed; return [_row_to_thread(r) for r in rows].
TlReturn(p) ==
    /\ Served(p, "tl_close")
    /\ replies' = IF loc[p].cancelled THEN replies
                  ELSE replies \cup
                    {[op |-> "thread_list", status |-> loc[p].state,
                      include_archived |-> loc[p].include, result |-> loc[p].rows]}
    /\ Finish(p)
    /\ UNCHANGED <<now, bound, waits, client, sent, db, disk, committed, calls, limit, pool, histVars>>

\* ----------------------------------------------------------------- msg_list
\* handle_msg_list: crud.msg_list(db, thread_id, after_seq, limit,
\* include_system_prompt), every argument taken from the call.
MlCall(p) ==
    /\ Free(p)
    /\ \E tid \in NameableThreads, after \in 0 .. MaxAfter, lim \in 0 .. MaxLimit,
          include \in BOOLEAN :
        Begin(p, "ml_select", [NoLocals EXCEPT !.tid = tid, !.after = after, !.lim = lim,
                                  !.include = include])
    /\ UNCHANGED <<restVars, db, disk, committed, histVars>>

\* SELECT * FROM messages WHERE thread_id = ? AND seq > ? ORDER BY seq ASC
\* LIMIT ?; msgs = [_row_to_message(r) for r in rows], of which the fields
\* id, thread_id, author, role, seq, author_id and author_name are kept.
MlSelect(p) ==
    /\ Served(p, "ml_select")
    /\ LET seqs == Limited(MsgListRows(db, loc[p].tid, loc[p].after), loc[p].lim)
           row(i) == CHOOSE m \in db.messages : m.seq = seqs[i]
       IN Resume(p, "ml_fetch",
                 [loc[p] EXCEPT !.rows =
                     [i \in 1 .. Len(seqs) |->
                         [id |-> row(i).id, thread_id |-> row(i).thread_id,
                          author |-> row(i).author, role |-> row(i).role,
                          seq |-> row(i).seq, author_id |-> row(i).author_id,
                          author_name |-> row(i).author_name]]])
    /\ UNCHANGED <<restVars, db, disk, committed, calls, limit, pool, histVars>>

\* The cursor is closed; if include_system_prompt and after_seq == 0 the
\* thread's system_prompt is read, else msgs is returned.
MlPolled(p) ==
    /\ Served(p, "ml_close")
    /\ IF WantsSystemPrompt(loc[p].include, loc[p].after)
       THEN Resume(p, "ml_sys", loc[p]) /\ UNCHANGED replies
       ELSE /\ replies' = IF loc[p].cancelled THEN replies
                          ELSE replies \cup
                            {[op |-> "msg_list", tid |-> loc[p].tid, after |-> loc[p].after,
                              limit |-> loc[p].lim, include |-> loc[p].include,
                              result |-> loc[p].rows]}
            /\ Finish(p)
    /\ UNCHANGED <<now, bound, waits, client, sent, db, disk, committed, calls, limit, pool, histVars>>

\* A variant that writes the composed row back to the messages table.
MlSysStored(p) ==
    /\ Served(p, "ml_sys_close")
    /\ db' = [db EXCEPT !.messages = @ \cup
                {[id |-> 0 - loc[p].tid, thread_id |-> loc[p].tid,
                  author |-> [base |-> "system", n |-> 1], role |-> "system",
                  seq |-> SystemPromptSeq, created_at |-> now, author_id |-> 0,
                  author_name |-> [base |-> "System", n |-> 1]]}]
    /\ replies' = replies
    /\ Finish(p)
    /\ UNCHANGED <<now, bound, waits, client, sent, disk, committed, calls, limit, pool, histVars>>

\* sys_msg = Message(id=f"sys-{thread_id}", author="system", role="system",
\* seq=0, author_id="system", author_name="System"); msgs.insert(0, sys_msg);
\* return msgs.  The id sys-{thread_id} is written as the negated thread id
\* and the author_id "system" as 0, which is no agent's id.
MlSysReturn(p) ==
    /\ Served(p, "ml_sys_close")
    /\ replies' = IF loc[p].cancelled THEN replies
                  ELSE replies \cup
                    {[op |-> "msg_list", tid |-> loc[p].tid, after |-> loc[p].after,
                      limit |-> loc[p].lim, include |-> loc[p].include,
                      result |-> <<[id |-> 0 - loc[p].tid, thread_id |-> loc[p].tid,
                                    author |-> [base |-> "system", n |-> 1],
                                    role |-> "system", seq |-> SystemPromptSeq,
                                    author_id |-> 0,
                                    author_name |-> [base |-> "System", n |-> 1]]>>
                                 \o loc[p].rows]}
    /\ Finish(p)
    /\ UNCHANGED <<now, bound, waits, client, sent, db, disk, committed, calls, limit, pool, histVars>>

\* ------------------------------------------------------------ specification
\* The store after init_schema and one completed thread_create("X"), which
\* returned FirstThread and emitted thread.new.
SeededStore ==
    [EmptyStore EXCEPT
        !.threads = {[id |-> FirstThread, topic |-> "X", status |-> "discuss",
                      created_at |-> 0, closed_at |-> {}]},
        !.events = {[id |-> 1, type |-> "thread.new", thread_id |-> FirstThread, seq |-> NoSeq,
                     at |-> 0]},
        !.evseq = 1]

InitWith(n) ==
    /\ db = SeededStore
    /\ disk = SeededStore
    /\ queue = <<>>
    /\ pc = [p \in Procs |-> "idle"]
    /\ loc = [p \in Procs |-> NoLocals]
    /\ calls = 0
    /\ limit = n
    /\ pool = [conn |-> 1, opened |-> 1, lock |-> "", ready |-> TRUE]
    /\ committed = {}
    /\ now = 0
    /\ bound = [c \in Conns |-> NoCreds]
    /\ waits = {}
    /\ client = [connected |-> FALSE, presented |-> NoEvent, seen |-> NoEvent]
    /\ sent = <<>>
    /\ replies = {}
    /\ maxAlloc = InitialSeq
    /\ burned = {}
    /\ created = {[topic |-> "X", id |-> FirstThread, raced |-> FALSE]}
    /\ removed = {}

Spec ==
    /\ InitWith(MaxCalls)
    /\ [][
            \E p \in Procs :
                \/ CursorStep(p)
                \/ TcCall(p) \/ TcInsert(p) \/ TcCommit(p) \/ TcEmit(p) \/ TcReturn(p)
                \/ TcSelect(p) \/ TcSelectReturn(p)
                \/ MpCall(p) \/ MpResolve(p) \/ MpSeqUpdate(p) \/ MpSeqCommit(p) \/ MpInsert(p)
                \/ MpCommit(p) \/ MpEmit(p) \/ MpReturn(p)
                \/ TdCall(p) \/ TdSelect(p) \/ TdSelectClose(p) \/ TdCount(p) \/ TdDelMsgs(p)
                \/ TdDelThread(p) \/ TdRollback(p) \/ TdCommit(p) \/ TdEmit(p) \/ TdReturn(p)
                \/ Cancel(p)
       ]_vars

\* The same program with one more invocation, enough for three overlapping
\* calls after the first thread exists.
SpecRace ==
    /\ InitWith(MaxCalls + 1)
    /\ [][
            \E p \in Procs :
                \/ CursorStep(p)
                \/ TcCall(p) \/ TcInsert(p) \/ TcCommit(p) \/ TcEmit(p) \/ TcReturn(p)
                \/ TcSelect(p) \/ TcSelectReturn(p)
                \/ MpCall(p) \/ MpResolve(p) \/ MpSeqUpdate(p) \/ MpSeqCommit(p) \/ MpInsert(p)
                \/ MpCommit(p) \/ MpEmit(p) \/ MpReturn(p)
                \/ TdCall(p) \/ TdSelect(p) \/ TdSelectClose(p) \/ TdCount(p) \/ TdDelMsgs(p)
                \/ TdDelThread(p) \/ TdRollback(p) \/ TdCommit(p) \/ TdEmit(p) \/ TdReturn(p)
                \/ Cancel(p)
       ]_vars

\* msg_wait, by either implementation, on connections without a bound agent,
\* next to msg_post calls and the clock.
SpecWait ==
    /\ InitWith(MaxCalls)
    /\ [][
            \/ Tick
            \/ \E p \in Procs :
                \/ CursorStep(p)
                \/ MpCall(p) \/ MpResolve(p) \/ MpSeqUpdate(p) \/ MpSeqCommit(p) \/ MpInsert(p)
                \/ MpCommit(p) \/ MpEmit(p) \/ MpReturn(p)
                \/ WtCall(p) \/ WtPoll(p) \/ WtPolled(p) \/ WtSysReturn(p) \/ WtWake(p)
                \/ WtTimeout(p)
       ]_vars

\* The agent registry, msg_wait and msg_post on the streaming connections.  Agent
\* FirstAgent has registered on connection c1, which bound it there.
SessionStore ==
    [SeededStore EXCEPT
        !.agents = {[id |-> FirstAgent, token |-> FirstAgent, name |-> [base |-> "B", n |-> 1],
                     display_name |-> [base |-> "B", n |-> 1], activity |-> "registered", at |-> 0, hb |-> 0]},
        !.events = @ \cup {[id |-> 2, type |-> "agent.online", thread_id |-> NoThread,
                            seq |-> NoSeq, at |-> 0]},
        !.evseq = 2]

InitSession ==
    /\ db = SessionStore
    /\ disk = SessionStore
    /\ queue = <<>>
    /\ pc = [p \in Procs |-> "idle"]
    /\ loc = [p \in Procs |-> NoLocals]
    /\ calls = 0
    /\ limit = MaxCalls
    /\ pool = [conn |-> 1, opened |-> 1, lock |-> "", ready |-> TRUE]
    /\ committed = {}
    /\ now = 0
    /\ bound = [c \in Conns |->
                    IF c = "c1" THEN [agent_id |-> FirstAgent, token |-> FirstAgent] ELSE NoCreds]
    /\ waits = {}
    /\ client = [connected |-> FALSE, presented |-> NoEvent, seen |-> NoEvent]
    /\ sent = <<>>
    /\ replies = {}
    /\ maxAlloc = InitialSeq
    /\ burned = {}
    /\ created = {[topic |-> "X", id |-> FirstThread, raced |-> FALSE]}
    /\ removed = {}

SpecSession ==
    /\ InitSession
    /\ [][
            \/ Tick
            \/ \E p \in Procs :
                \/ CursorStep(p)
                \/ ArCall(p) \/ ArNames(p) \/ ArInsert(p) \/ ArCommit(p) \/ ArEmit(p) \/ ArReturn(p)
                \/ AhCall(p) \/ AhAuth(p) \/ AhAuthClose(p) \/ AhMark(p) \/ AhReturn(p)
                \/ AuCall(p) \/ AuAuth(p) \/ AuAuthClose(p) \/ AuMark(p) \/ AuMarkCommit(p)
                \/ AuReload(p) \/ AuReloadClose(p) \/ AuEmit(p) \/ AuReturn(p)
                \/ AnCall(p) \/ AnAuth(p) \/ AnAuthClose(p) \/ AnDelete(p) \/ AnCommit(p)
                \/ AnEmit(p) \/ AnReturn(p)
                \/ WtCall(p) \/ WtAuth(p) \/ WtAuthClose(p) \/ WtMark(p) \/ WtMarkCommit(p)
                \/ WtPoll(p) \/ WtPolled(p) \/ WtSysReturn(p) \/ WtWake(p) \/ WtTimeout(p)
                \/ MpCall(p) \/ MpResolve(p) \/ MpSeqUpdate(p) \/ MpSeqCommit(p) \/ MpInsert(p)
                \/ MpCommit(p) \/ MpMark(p) \/ MpMarkCommit(p) \/ MpEmit(p) \/ MpReturn(p)
       ]_vars

\* The agent registry under callers that present any credentials.  Agent
\* FirstAgent registered on connection c1 and has unregistered; agent
\* SecondAgent registered on connection c2.
AgentsStore ==
    [SeededStore EXCEPT
        !.agents = {[id |-> SecondAgent, token |-> SecondAgent, name |-> [base |-> "B", n |-> 2],
                     display_name |-> [base |-> "D", n |-> 1], activity |-> "registered", at |-> 0, hb |-> 0]},
        !.events = @ \cup
            {[id |-> 2, type |-> "agent.online", thread_id |-> NoThread, seq |-> NoSeq, at |-> 0],
             [id |-> 3, type |-> "agent.online", thread_id |-> NoThread, seq |-> NoSeq, at |-> 0],
             [id |-> 4, type |-> "agent.offline", thread_id |-> NoThread, seq |-> NoSeq, at |-> 0]},
        !.evseq = 4]

InitAgents ==
    /\ db = AgentsStore
    /\ disk = AgentsStore
    /\ queue = <<>>
    /\ pc = [p \in Procs |-> "idle"]
    /\ loc = [p \in Procs |-> NoLocals]
    /\ calls = 0
    /\ limit = MaxCalls
    /\ pool = [conn |-> 1, opened |-> 1, lock |-> "", ready |-> TRUE]
    /\ committed = {}
    /\ now = 0
    /\ bound = [c \in Conns |->
                    IF c = "c1" THEN [agent_id |-> FirstAgent, token |-> FirstAgent]
                    ELSE [agent_id |-> SecondAgent, token |-> SecondAgent]]
    /\ waits = {}
    /\ client = [connected |-> FALSE, presented |-> NoEvent, seen |-> NoEvent]
    /\ sent = <<>>
    /\ replies = {}
    /\ maxAlloc = InitialSeq
    /\ burned = {}
    /\ created = {[topic |-> "X", id |-> FirstThread, raced |-> FALSE]}
    /\ removed = {}

\* heartbeat, resume, unregister, msg_post by agents and agent.list on both
\* surfaces, next to the clock.
SpecAgents ==
    /\ InitAgents
    /\ [][
            \/ Tick
            \/ \E p \in Procs :
                \/ CursorStep(p)
                \/ AhCall(p) \/ AhAuth(p) \/ AhAuthClose(p) \/ AhMark(p) \/ AhReturn(p)
                \/ AuCall(p) \/ AuAuth(p) \/ AuAuthClose(p) \/ AuMark(p) \/ AuMarkCommit(p)
                \/ AuReload(p) \/ AuReloadClose(p) \/ AuEmit(p) \/ AuReturn(p)
                \/ AnCall(p) \/ AnAuth(p) \/ AnAuthClose(p) \/ AnDelete(p) \/ AnCommit(p)
                \/ AnEmit(p) \/ AnReturn(p)
                \/ MpCall(p) \/ MpResolve(p) \/ MpSeqUpdate(p) \/ MpSeqCommit(p) \/ MpInsert(p)
                \/ MpCommit(p) \/ MpMark(p) \/ MpMarkCommit(p) \/ MpEmit(p) \/ MpReturn(p)
                \/ AlCall(p) \/ AlSelect(p) \/ AlReturn(p)
       ]_vars

\* Registrations and unregistrations.  Three agents of the same ide and model
\* have registered and the second has unregistered: the names "B" and "B 3"
\* are held and "B 2" is free.
RegisterStore ==
    [SeededStore EXCEPT
        !.agents = {[id |-> FirstAgent, token |-> FirstAgent, name |-> [base |-> "B", n |-> 1],
                     display_name |-> [base |-> "B", n |-> 1], activity |-> "registered", at |-> 0, hb |-> 0],
                    [id |-> SecondAgent, token |-> SecondAgent, name |-> [base |-> "B", n |-> 3],
                     display_name |-> [base |-> "B", n |-> 3], activity |-> "registered", at |-> 0, hb |-> 0]},
        !.events = @ \cup
            {[id |-> 2, type |-> "agent.online", thread_id |-> NoThread, seq |-> NoSeq, at |-> 0],
             [id |-> 3, type |-> "agent.online", thread_id |-> NoThread, seq |-> NoSeq, at |-> 0],
             [id |-> 4, type |-> "agent.online", thread_id |-> NoThread, seq |-> NoSeq, at |-> 0],
             [id |-> 5, type |-> "agent.offline", thread_id |-> NoThread, seq |-> NoSeq, at |-> 0]},
        !.evseq = 5]

InitRegister ==
    /\ db = RegisterStore
    /\ disk = RegisterStore
    /\ queue = <<>>
    /\ pc = [p \in Procs |-> "idle"]
    /\ loc = [p \in Procs |-> NoLocals]
    /\ calls = 0
    /\ limit = MaxCalls
    /\ pool = [conn |-> 1, opened |-> 1, lock |-> "", ready |-> TRUE]
    /\ committed = {}
    /\ now = 0
    /\ bound = [c \in Conns |->
                    IF c = "c1" THEN [agent_id |-> FirstAgent, token |-> FirstAgent]
                    ELSE [agent_id |-> SecondAgent, token |-> SecondAgent]]
    /\ waits = {}
    /\ client = [connected |-> FALSE, presented |-> NoEvent, seen |-> NoEvent]
    /\ sent = <<>>
    /\ replies = {}
    /\ maxAlloc = InitialSeq
    /\ burned = {}
    /\ created = {[topic |-> "X", id |-> FirstThread, raced |-> FALSE]}
    /\ removed = {}

SpecRegister ==
    /\ InitRegister
    /\ [][
            \E p \in Procs :
                \/ CursorStep(p)
                \/ ArCall(p) \/ ArNames(p) \/ ArInsert(p) \/ ArCommit(p) \/ ArEmit(p) \/ ArReturn(p)
                \/ AnCall(p) \/ AnAuth(p) \/ AnAuthClose(p) \/ AnDelete(p) \/ AnCommit(p)
                \/ AnEmit(p) \/ AnReturn(p)
       ]_vars

\* The four token-gated operations called within one instant of the clock: a
\* wait with a timeout above zero that finds nothing stays asleep.
SpecGate ==
    /\ InitAgents
    /\ [][
            \E p \in Procs :
                \/ CursorStep(p)
                \/ AhCall(p) \/ AhAuth(p) \/ AhAuthClose(p) \/ AhMark(p) \/ AhReturn(p)
                \/ AuCall(p) \/ AuAuth(p) \/ AuAuthClose(p) \/ AuMark(p) \/ AuMarkCommit(p)
                \/ AuReload(p) \/ AuReloadClose(p) \/ AuEmit(p) \/ AuReturn(p)
                \/ AnCall(p) \/ AnAuth(p) \/ AnAuthClose(p) \/ AnDelete(p) \/ AnCommit(p)
                \/ AnEmit(p) \/ AnReturn(p)
                \/ WtCall(p) \/ WtAuth(p) \/ WtAuthClose(p) \/ WtMark(p) \/ WtMarkCommit(p)
                \/ WtPoll(p) \/ WtPolled(p) \/ WtSysReturn(p) \/ WtTimeout(p)
       ]_vars

\* A registered agent that waits and posts but sends no heartbeat, next to
\* agent.list and the clock.
SpecIdle ==
    /\ InitSession
    /\ [][
            \/ Tick
            \/ \E p \in Procs :
                \/ CursorStep(p)
                \/ WtCall(p) \/ WtAuth(p) \/ WtAuthClose(p) \/ WtMark(p) \/ WtMarkCommit(p)
                \/ WtPoll(p) \/ WtPolled(p) \/ WtSysReturn(p) \/ WtWake(p) \/ WtTimeout(p)
                \/ MpCall(p) \/ MpResolve(p) \/ MpSeqUpdate(p) \/ MpSeqCommit(p) \/ MpInsert(p)
                \/ MpCommit(p) \/ MpMark(p) \/ MpMarkCommit(p) \/ MpEmit(p) \/ MpReturn(p)
                \/ AlCall(p) \/ AlSelect(p) \/ AlReturn(p)
       ]_vars

\* The console's event stream next to msg_post calls and the clock.
SpecSSE ==
    /\ InitWith(MaxCalls + 1)
    /\ [][
            \/ Tick
            \/ \E p \in Procs :
                \/ CursorStep(p)
                \/ MpCall(p) \/ MpResolve(p) \/ MpSeqUpdate(p) \/ MpSeqCommit(p) \/ MpInsert(p)
                \/ MpCommit(p) \/ MpEmit(p) \/ MpReturn(p)
                \/ SsConnect(p) \/ SsPoll(p) \/ SsPolled(p) \/ SsYield(p) \/ SsWake(p)
                \/ SsDisconnect(p)
       ]_vars

\* The event log: msg_post and thread_delete emit, the cleanup loop prunes,
\* consumers read with events_since.
SpecEvents ==
    /\ InitWith(MaxCalls + 1)
    /\ [][
            \/ Tick
            \/ \E p \in Procs :
                \/ CursorStep(p)
                \/ MpCall(p) \/ MpResolve(p) \/ MpSeqUpdate(p) \/ MpSeqCommit(p) \/ MpInsert(p)
                \/ MpCommit(p) \/ MpEmit(p) \/ MpReturn(p)
                \/ TdCall(p) \/ TdSelect(p) \/ TdSelectClose(p) \/ TdCount(p) \/ TdDelMsgs(p)
                \/ TdDelThread(p) \/ TdRollback(p) \/ TdCommit(p) \/ TdEmit(p) \/ TdReturn(p)
                \/ EpCall(p) \/ EpDelete(p) \/ EpCommit(p)
                \/ EsCall(p) \/ EsSelect(p) \/ EsReturn(p)
       ]_vars

\* Only msg_post calls (failing inserts and cancellations included).
SpecPost ==
    /\ InitWith(MaxCalls + 1)
    /\ [][
            \E p \in Procs :
                \/ CursorStep(p)
                \/ MpCall(p) \/ MpResolve(p) \/ MpSeqUpdate(p) \/ MpSeqCommit(p) \/ MpInsert(p)
                \/ MpCommit(p) \/ MpEmit(p) \/ MpReturn(p)
                \/ Cancel(p)
       ]_vars

\* The store after thread_create("X"), a msg_post to X, thread_create("Y"), a
\* msg_post to Y, a msg_post to X, thread_archive of Y, thread_create("Z") and
\* thread_close of Z, the posts by the author "human" and all calls completed.
ThreadsStore ==
    [EmptyStore EXCEPT
        !.seq = 3,
        !.threads = {[id |-> FirstThread, topic |-> "X", status |-> "discuss",
                      created_at |-> 0, closed_at |-> {}],
                     [id |-> FirstThread + 2, topic |-> "Y", status |-> "archived",
                      created_at |-> 1, closed_at |-> {}],
                     [id |-> FirstThread + 3, topic |-> "Z", status |-> "closed",
                      created_at |-> 1, closed_at |-> {1}]},
        !.messages = {[id |-> FirstThread + k + 3,
                       thread_id |-> IF k = 2 THEN FirstThread + 2 ELSE FirstThread,
                       author |-> [base |-> "", n |-> NoAgent], role |-> "user", seq |-> k,
                       created_at |-> IF k = 1 THEN 0 ELSE 1, author_id |-> NoAgent,
                       author_name |-> [base |-> "", n |-> NoAgent]] : k \in 1 .. 3},
        !.events = {[id |-> 1, type |-> "thread.new", thread_id |-> FirstThread,
                     seq |-> NoSeq, at |-> 0],
                    [id |-> 2, type |-> "msg.new", thread_id |-> FirstThread,
                     seq |-> 1, at |-> 0],
                    [id |-> 3, type |-> "thread.new", thread_id |-> FirstThread + 2,
                     seq |-> NoSeq, at |-> 1],
                    [id |-> 4, type |-> "msg.new", thread_id |-> FirstThread + 2,
                     seq |-> 2, at |-> 1],
                    [id |-> 5, type |-> "msg.new", thread_id |-> FirstThread,
                     seq |-> 3, at |-> 1],
                    [id |-> 6, type |-> "thread.state", thread_id |-> FirstThread + 2,
                     seq |-> NoSeq, at |-> 1],
                    [id |-> 7, type |-> "thread.archived", thread_id |-> FirstThread + 2,
                     seq |-> NoSeq, at |-> 1],
                    [id |-> 8, type |-> "thread.new", thread_id |-> FirstThread + 3,
                     seq |-> NoSeq, at |-> 1],
                    [id |-> 9, type |-> "thread.closed", thread_id |-> FirstThread + 3,
                     seq |-> NoSeq, at |-> 1]},
        !.evseq = 9]

InitThreads ==
    /\ db = ThreadsStore
    /\ disk = ThreadsStore
    /\ queue = <<>>
    /\ pc = [p \in Procs |-> "idle"]
    /\ loc = [p \in Procs |-> NoLocals]
    /\ calls = 0
    /\ limit = MaxCalls
    /\ pool = [conn |-> 1, opened |-> 1, lock |-> "", ready |-> TRUE]
    /\ committed = {[id |-> m.id, at |-> m.created_at] : m \in ThreadsStore.messages}
    /\ now = 1
    /\ bound = [c \in Conns |-> NoCreds]
    /\ waits = {}
    /\ client = [connected |-> FALSE, presented |-> NoEvent, seen |-> NoEvent]
    /\ sent = <<>>
    /\ replies = {}
    /\ maxAlloc = ThreadsStore.seq
    /\ burned = {}
    /\ created = {[topic |-> "X", id |-> FirstThread, raced |-> FALSE],
                  [topic |-> "Y", id |-> FirstThread + 2, raced |-> FALSE],
                  [topic |-> "Z", id |-> FirstThread + 3, raced |-> FALSE]}
    /\ removed = {}

\* The thread operations, thread_list and msg_list next to msg_post.
SpecThreads ==
    InitThreads /\ [][\E p \in Procs :
                        \/ CursorStep(p)
                        \/ MpCall(p) \/ MpResolve(p) \/ MpSeqUpdate(p) \/ MpSeqCommit(p)
                        \/ MpInsert(p) \/ MpCommit(p) \/ MpEmit(p) \/ MpReturn(p)
                        \/ TsCall(p) \/ TsUpdate(p) \/ TsCommit(p) \/ TsEmit(p)
                        \/ TsEmitted(p)
                        \/ TlCall(p) \/ TlSelect(p) \/ TlReturn(p)
                        \/ MlCall(p) \/ MlSelect(p) \/ MlPolled(p) \/ MlSysReturn(p)]_vars

----------------------------------------------------------------------------
\* Global message ordering and thread creation.

\* C1: under any interleaving of msg_post calls, every value next_seq yields is
\* positive and strictly greater than every value it yielded before, and no
\* two stored messages carry the same seq.
C1_SeqStrictlyIncreasing ==
    /\ [][\A p \in Procs :
            (pc[p] = "mp_seq_update" /\ pc'[p] # "mp_seq_update") =>
                (db'.seq > InitialSeq /\ db'.seq > maxAlloc)]_vars
    /\ [](\A m, n \in db.messages : m.seq = n.seq => m = n)

\* C1 witness: two messages are stored with different seq values while a third
\* msg_post holds a freshly allocated value.
C1_Witness ==
    /\ \E m, n \in db.messages : m.seq < n.seq
    /\ \E p \in Procs : pc[p] = "mp_insert" /\ loc[p].seq = maxAlloc

\* C2: a seq that msg_post obtained and then lost (failed insert or
\* cancellation) stays consumed: the counter is never below it, and no other
\* msg_post holds it or has stored a message that carries it.
C2_BurnedSeqNeverReissued ==
    \A b \in burned :
        /\ db.seq >= b.seq
        /\ \A p \in Procs : loc[p].seq = b.seq => loc[p].mid = b.mid
        /\ \A m \in db.messages : m.seq = b.seq => m.id = b.mid

C4_MsgNewAfterCommit ==
    [][\A e \in db'.events \ db.events :
            e.type = "msg.new" =>
                \E m \in disk.messages :
                    /\ m.seq = e.seq
                    /\ m.thread_id = e.thread_id
                    /\ m \in db'.messages]_vars

\* C5: within a thread, a message row is never committed after a row of the
\* same thread that carries a larger seq.
C5_SeqOrderIsCommitOrder ==
    [][\A m \in disk'.messages \ disk.messages :
            \A n \in disk.messages :
                n.thread_id = m.thread_id => n.seq <= m.seq]_vars

\* C5 witness: two msg_post calls on one thread are running at once; the row
\* with the smaller seq is committed and the row with the larger seq is
\* inserted and awaits its commit.
C5_Witness ==
    \E p, q \in Procs :
        /\ pc[p] = "mp_emit" /\ pc[q] = "mp_commit"
        /\ loc[p].tid = loc[q].tid /\ loc[p].seq < loc[q].seq
        /\ \E m \in disk.messages : m.id = loc[p].mid /\ m.seq = loc[p].seq
        /\ \E n \in db.messages \ disk.messages : n.id = loc[q].mid /\ n.seq = loc[q].seq

----------------------------------------------------------------------------
\* msg_wait.

\* C6, for handle_msg_wait with a positive timeout: a non-empty result is the
\* thread's stored messages with seq > after_seq in ascending order, and the
\* result is empty only if no message of the thread with seq > after_seq was
\* committed before the timeout expired.
C6_WaitReturnsCommittedMessages ==
    \A w \in waits :
        (w.handler = "dispatch" /\ w.timeout > 0) =>
            /\ \A i \in 1 .. Len(w.result) :
                    /\ w.result[i] \in StoredAfter(db, w.tid, w.after)
                    /\ \A j \in 1 .. Len(w.result) : i < j => w.result[i] < w.result[j]
            /\ w.result = <<>> =>
                    \A m \in disk.messages :
                        (m.thread_id = w.tid /\ m.seq > w.after) =>
                            \A c \in committed : c.id = m.id => c.at >= w.deadline

\* C7: no msg_wait call returns the synthetic row with seq 0.
C7_WaitNeverReturnsSystemPrompt ==
    \A w \in waits : \A i \in 1 .. Len(w.result) : w.result[i] # SystemPromptSeq

\* C8: handle_msg_wait called with timeout_ms = 0 returns exactly the stored
\* messages of the thread with seq > after_seq that existed at the call.
C8_ZeroTimeoutReturnsExisting ==
    \A w \in waits :
        (w.handler = "dispatch" /\ w.timeout = 0) => w.result = Ascending(w.atCall)

\* C9: handle_msg_wait called without credentials on a connection that has
\* an agent bound records msg_wait on that agent's row; a call with explicit
\* credentials does not use the bound ones; the activity update changes the
\* row of no other agent.
C9_WaitAttributesBoundAgent ==
    [][\A p \in Procs :
        LET target == loc[p].creds.agent_id IN
        /\ (pc[p] = "wt_auth_close" /\ pc'[p] # pc[p] /\ loc[p].explicit = NoCreds)
                => pc'[p] = "wt_mark"
        /\ (pc[p] = "wt_mark" /\ pc'[p] # pc[p]) =>
                /\ loc[p].explicit = NoCreds =>
                        \E a \in db'.agents : a.id = target /\ a.activity = "msg_wait"
                /\ loc[p].explicit.agent_id # NoAgent => target = loc[p].explicit.agent_id
                /\ \A b \in db.agents : b.id # target => b \in db'.agents]_vars

----------------------------------------------------------------------------
\* Event log.

\* C11: every event inserted gets an id above the greatest id issued before
\* it (the AUTOINCREMENT high-water mark), and the greatest id issued never
\* goes down, by a prune or otherwise, so no id is issued twice.  (A row that
\* a rollback puts back is not an insert.)
C11_EventIdsNeverReissued ==
    [][/\ \A e \in db'.events \ (db.events \cup disk.events) : e.id > db.evseq
       /\ db'.evseq >= db.evseq]_vars

\* C12: events_since(after_id, limit) returns retained ids above after_id in
\* ascending order, min(limit, number of such ids) of them, and skips no
\* retained id between after_id and the last one returned.
C12_EventsSinceLowestFirst ==
    \A r \in replies :
        r.op = "events_since" =>
            LET above == {i \in r.retained : i > r.after}
                n == Len(r.rows)
            IN /\ \A k \in 1 .. n : r.rows[k] \in above
               /\ \A k, l \in 1 .. n : k < l => r.rows[k] < r.rows[l]
               /\ n = IF Cardinality(above) < r.limit THEN Cardinality(above) ELSE r.limit
               /\ \A i \in above : (\E k \in 1 .. n : i < r.rows[k]) =>
                                        \E k \in 1 .. n : r.rows[k] = i

\* C12 witness: a call with a checkpoint above 0 that returned `limit` ids
\* and left retained ids above them for the next call.
C12_Witness ==
    \E r \in replies :
        /\ r.op = "events_since"
        /\ r.after > 0
        /\ Len(r.rows) = r.limit
        /\ \E i \in r.retained : i > r.rows[Len(r.rows)]

----------------------------------------------------------------------------
\* Event stream.

\* C10: on a connection of the event stream made presenting last event id N,
\* every event sent has an id above N, and the ids are sent in ascending
\* order, each at most once.
C10_StreamResumesAfterPresentedId ==
    \A i \in 1 .. Len(sent) :
        /\ sent[i] > client.presented
        /\ \A j \in 1 .. Len(sent) : i < j => sent[i] < sent[j]

\* ------------------------------------------------------------ Agent registry.
\* C13: no step changes or removes an agent's record unless the call that
\* makes the step was given that agent's id and its own token.
C13_RecordChangesOnlyWithToken ==
    [][\A a \in db.agents \ db'.agents :
          /\ queue # <<>>
          /\ loc[Head(queue)].creds.agent_id = a.id
          /\ loc[Head(queue)].creds.token = a.token]_vars

\* C14: unregister with the valid token does not delete the agent's row: no
\* step removes a row of the agents table or changes the id, the token or the
\* name issued at registration, so that a later resume(id, token) finds them.
C14_UnregisterKeepsRow ==
    [][\A a \in db.agents :
          \E b \in db'.agents : b.id = a.id /\ b.token = a.token /\ b.name = a.name]_vars

\* C15: every entry of an agent.list result produced at time t has is_online
\* true exactly when t - last_heartbeat < HEARTBEAT_TIMEOUT, and the
\* last_heartbeat of an agent whose latest activity is its registration, a
\* heartbeat or a resume is the time of that activity.
C15_OnlineIffHeartbeatRecent ==
    \A r \in replies :
        r.op = "agent_list" =>
            \A a \in r.agents :
                /\ a.is_online <=> (r.at - a.last_heartbeat < HeartbeatTimeout)
                /\ a.last_heartbeat <= a.last_activity_time
                /\ a.last_activity_time <= r.at
                /\ a.last_activity \in {"registered", "heartbeat", "resume"}
                        => a.last_heartbeat = a.last_activity_time

\* An agent whose heartbeat had lapsed for the whole timeout is listed online
\* after its heartbeat or resume.
C15_Witness ==
    \E r \in replies :
        /\ r.op = "agent_list"
        /\ \E a \in r.agents : a.is_online /\ a.last_heartbeat >= HeartbeatTimeout

\* C16: a step that records the activity msg_wait or msg_post on an agent's
\* row leaves its last_heartbeat as it was, and every agent.list result
\* reports an agent whose latest activity is a wait or a post offline once
\* HEARTBEAT_TIMEOUT has elapsed since its last heartbeat.
C16_WaitAndPostAreNotKeepAlive ==
    [][/\ \A a \in db.agents : \A b \in db'.agents :
              (b.id = a.id /\ b.activity \in {"msg_wait", "msg_post"} /\ b # a)
                  => b.hb = a.hb
       /\ \A r \in replies' :
              r.op = "agent_list" =>
                  \A a \in r.agents :
                      (/\ a.last_activity \in {"msg_wait", "msg_post"}
                       /\ r.at - a.last_heartbeat >= HeartbeatTimeout) => ~a.is_online]_vars

\* An agent listed offline whose wait or post came after its heartbeat had
\* lapsed.
C16_Witness ==
    \E r \in replies :
        /\ r.op = "agent_list"
        /\ \E a \in r.agents :
                /\ a.last_activity \in {"msg_wait", "msg_post"}
                /\ a.last_activity_time >= a.last_heartbeat + HeartbeatTimeout
                /\ ~a.is_online

\* C17: in every reachable state no two rows of the agents table have the
\* same name, concurrent registrations with the same ide and model included.
C17_AgentNamesUnique ==
    \A a, b \in db.agents : a.id # b.id => a.name # b.name

C19_AuthFailureTellsNothing ==
    \A r, s \in replies :
        (/\ r.op \in {"heartbeat", "resume", "unregister", "msg_wait"}
         /\ s.op = r.op) => s.resp = r.resp

\* The same operation has failed once for an unknown id and once for a wrong
\* token.
C19_Witness ==
    \E r, s \in replies :
        /\ r.op \in {"heartbeat", "resume", "unregister", "msg_wait"}
        /\ s.op = r.op
        /\ r.auth = "unknown"
        /\ s.auth = "mismatch"

\* C20: no agent.list result, on the REST surface or on the tool surface,
\* contains the token of an agent.
C20_ListOmitsTokens ==
    \A r \in replies :
        r.op = "agent_list" => \A a \in r.agents : a.token = NoAgent

\* ------------------------------------------------------ msg_post: policy
\* RATE_LIMIT_MSG_PER_MINUTE (30 by default, 3 in the rate-limit tests),
\* scaled down to the number of calls of a behaviour.
RateLimit == 2

\* The window of the rate limit (60 s), in units of the clock: twice the
\* heartbeat timeout of 30 s.
RateWindow == 4

\* C22: with RateLimit > 0, a stored message is preceded by fewer than
\* RateLimit messages of the same author key (the agent id when the author
\* resolved to an agent, the author string otherwise) created within the
\* window before it.
C22_PostsWithinRateLimit ==
    RateLimit > 0 =>
        \A m \in db.messages :
            LET key(x) == IF x.author_id # NoAgent THEN x.author_id ELSE x.author.n
                before == {x \in db.messages :
                              /\ key(x) = key(m)
                              /\ x.seq < m.seq
                              /\ x.created_at > m.created_at - RateWindow}
            IN Cardinality(before) < RateLimit

\* C21: a msg_post that the rate limit rejects (RateLimit or more messages of
\* its author key were created within the window) leaves the store unchanged:
\* no step of it increments the sequence counter, inserts a row, appends an
\* event or updates the activity of an agent.
C21_RejectedPostChangesNothing ==
    [][\A p \in Procs :
          LET key(x) == IF x.author_id # NoAgent THEN x.author_id ELSE x.author.n
              mine == IF loc[p].author_id # NoAgent THEN loc[p].author_id ELSE loc[p].author
              recent == {x \in db.messages :
                            /\ x.id # loc[p].mid
                            /\ key(x) = mine
                            /\ x.created_at > now - RateWindow}
          IN (/\ pc[p] \in {"mp_seq_update", "mp_insert", "mp_mark", "mp_emit"}
              /\ Served(p, pc[p])
              /\ pc'[p] # pc[p]
              /\ Cardinality(recent) >= RateLimit)
             => db' = db]_vars

\* C23: the row msg_post inserts carries the author resolved at write time:
\* when the author argument is the id of a registered agent, author_id is
\* that id, author the agent's name and author_name the agent's
\* display_name (which is its name when none was given); when the argument
\* resolved to no agent, author and author_name are the argument verbatim
\* and author_id is null.
C23_AuthorResolvedAtWrite ==
    [][\A m \in db'.messages \ db.messages :
          \A p \in Procs :
              loc[p].mid = m.id =>
                  IF \E a \in db.agents : a.id = loc[p].author
                  THEN \A a \in db.agents :
                          a.id = loc[p].author =>
                              /\ m.author_id = a.id
                              /\ m.author = a.name
                              /\ m.author_name = a.display_name
                  ELSE loc[p].author_id = NoAgent =>
                          /\ m.author_id = NoAgent
                          /\ m.author = [base |-> "", n |-> loc[p].author]
                          /\ m.author_name = [base |-> "", n |-> loc[p].author]]_vars

\* The process before the first get_db has completed: _db is None, _lock is
\* free, and up to three coroutines call get_db.
SpecPool ==
    /\ db = EmptyStore
    /\ disk = EmptyStore
    /\ queue = <<>>
    /\ pc = [p \in Procs |-> "idle"]
    /\ loc = [p \in Procs |-> NoLocals]
    /\ calls = 0
    /\ limit = MaxCalls + 1
    /\ pool = [conn |-> 0, opened |-> 0, lock |-> "", ready |-> FALSE]
    /\ committed = {}
    /\ now = 0
    /\ bound = [c \in Conns |-> NoCreds]
    /\ waits = {}
    /\ client = [connected |-> FALSE, presented |-> NoEvent, seen |-> NoEvent]
    /\ sent = <<>>
    /\ replies = {}
    /\ maxAlloc = InitialSeq
    /\ burned = {}
    /\ created = {}
    /\ removed = {}
    /\ [][
            \E p \in Procs :
                \/ CursorStep(p)
                \/ GdCall(p) \/ GdLocked(p) \/ GdConnected(p) \/ GdSchema(p)
       ]_vars

\* A reader that calls msg_list with a cursor, next to msg_post calls: up to
\* three overlapping calls.
SpecCursor ==
    /\ InitWith(MaxCalls + 1)
    /\ [][
            \E p \in Procs :
                \/ CursorStep(p)
                \/ MpCall(p) \/ MpResolve(p) \/ MpSeqUpdate(p) \/ MpSeqCommit(p) \/ MpInsert(p)
                \/ MpCommit(p) \/ MpEmit(p) \/ MpReturn(p)
                \/ MlCall(p) \/ MlSelect(p) \/ MlPolled(p) \/ MlSysReturn(p)
       ]_vars

\* The inactivity sweep next to the thread operations, msg_post and the
\* clock.
SpecSweep ==
    /\ InitThreads
    /\ [][
            \/ Tick
            \/ \E p \in Procs :
                \/ CursorStep(p)
                \/ MpCall(p) \/ MpResolve(p) \/ MpSeqUpdate(p) \/ MpSeqCommit(p)
                \/ MpInsert(p) \/ MpCommit(p) \/ MpEmit(p) \/ MpReturn(p)
                \/ TsCall(p) \/ TsUpdate(p) \/ TsCommit(p) \/ TsEmit(p) \/ TsEmitted(p)
                \/ SwCall(p) \/ SwSelect(p) \/ SwClosed(p) \/ SwUpdate(p) \/ SwEmit(p)
                \/ SwEmitted(p) \/ SwCommit(p)
       ]_vars

\* ----------------------------------------------------------------- msg_list
\* C24 as stated: every row msg_list(thread, after_seq = k) returns is a stored
\* message of that thread with seq > k, and the rows are in strictly
\* ascending seq order.
C24_ListReturnsOnlyStoredAfter ==
    \A r \in replies :
        r.op = "msg_list" =>
            /\ \A i \in 1 .. Len(r.result) :
                  /\ r.result[i].thread_id = r.tid
                  /\ r.result[i].seq > r.after
                  /\ \E m \in db.messages :
                        /\ m.id = r.result[i].id /\ m.seq = r.result[i].seq
                        /\ m.thread_id = r.result[i].thread_id
            /\ \A i, j \in 1 .. Len(r.result) : i < j => r.result[i].seq < r.result[j].seq

\* C24, amended: apart from the synthetic system-prompt row that leads the
\* result when after_seq = 0 and include_system_prompt is true, every row
\* msg_list(thread, after_seq = k) returns is a stored message of that thread
\* with seq > k; the rows are in strictly ascending seq order.
C24_ListReturnsStoredAfterPrompt ==
    \A r \in replies :
        r.op = "msg_list" =>
            /\ \A i \in 1 .. Len(r.result) :
                  (i > 1 \/ ~(r.after = 0 /\ r.include)) =>
                      /\ r.result[i].thread_id = r.tid
                      /\ r.result[i].seq > r.after
                      /\ \E m \in db.messages :
                            /\ m.id = r.result[i].id /\ m.seq = r.result[i].seq
                            /\ m.thread_id = r.result[i].thread_id
            /\ \A i, j \in 1 .. Len(r.result) : i < j => r.result[i].seq < r.result[j].seq

\* A msg_list with after_seq = 1 has returned a message of its thread while
\* the store holds a message of the same thread at or below after_seq and a
\* message of another thread above it.
C24_Witness ==
    \E r \in replies :
        /\ r.op = "msg_list" /\ r.after = 1 /\ Len(r.result) > 0
        /\ \E m \in db.messages : m.thread_id = r.tid /\ m.seq <= r.after
        /\ \E m \in db.messages : m.thread_id # r.tid /\ m.seq > r.after

\* C25: a msg_list result holds exactly one synthetic row (seq 0, role
\* system, author system), placed before every stored row, when after_seq = 0
\* and include_system_prompt is true, and none otherwise; limit bounds the
\* stored rows only, so with limit = 0 the result is at most the synthetic row.
C25_SystemPromptRowAndLimit ==
    \A r \in replies :
        r.op = "msg_list" =>
            LET synthetic == {i \in 1 .. Len(r.result) :
                                \/ r.result[i].seq = SystemPromptSeq
                                \/ r.result[i].role = "system"
                                \/ r.result[i].author = [base |-> "system", n |-> 1]}
            IN /\ IF r.after = 0 /\ r.include
                  THEN /\ synthetic = {1}
                       /\ r.result[1].seq = SystemPromptSeq
                       /\ r.result[1].role = "system"
                       /\ r.result[1].author = [base |-> "system", n |-> 1]
                  ELSE synthetic = {}
               /\ Len(r.result) - Cardinality(synthetic) <= r.limit

\* A msg_list with after_seq = 0, include_system_prompt and limit = MaxLimit
\* has returned the synthetic row followed by MaxLimit stored rows, and
\* another with limit = 0 has returned the synthetic row alone.
C25_Witness ==
    /\ \E r \in replies :
        /\ r.op = "msg_list" /\ r.after = 0 /\ r.include /\ r.limit = MaxLimit
        /\ Len(r.result) = MaxLimit + 1
    /\ \E r \in replies :
        /\ r.op = "msg_list" /\ r.after = 0 /\ r.include /\ r.limit = 0
        /\ Len(r.result) = 1

\* ------------------------------------------------------- thread operations
\* C26: a thread whose status is closed has closed_at set, whichever
\* operation closed it; closed_at, once set, keeps its value when the thread
\* leaves closed; and closed_at becomes set only in a step that leaves the
\* thread closed.
C26_ClosedAtIffEverClosed ==
    [][\A u \in db'.threads :
          /\ u.status = "closed" => u.closed_at # {}
          /\ \A t \in db.threads :
                t.id = u.id =>
                    /\ t.closed_at # {} => u.closed_at = t.closed_at
                    /\ (t.closed_at = {} /\ u.closed_at # {}) => u.status = "closed"]_vars

\* C27: when thread_set_state(id, "archived") or thread_archive(id) has
\* returned True, the event log holds a thread.state event and a
\* thread.archived event for that thread, both appended by the call.
C27_ArchivingEmitsArchived ==
    \A r \in replies :
        (r.op \in {"thread_set_state", "thread_archive"} /\ r.state = "archived" /\ r.ok) =>
            /\ \E e \in db.events :
                  e.type = "thread.state" /\ e.thread_id = r.tid /\ e.id > r.last
            /\ \E e \in db.events :
                  e.type = "thread.archived" /\ e.thread_id = r.tid /\ e.id > r.last

\* C28: a thread_set_state whose state is none of discuss, implement, review,
\* done, closed, archived ends in the invalid-input error (ValueError)
\* without changing the store: no thread row changes and no event is
\* appended, and no thread ever holds a status outside the six.
C28_InvalidStateRejected ==
    [][/\ \A r \in replies' \ replies :
              (/\ r.op = "thread_set_state"
               /\ r.state \notin {"discuss", "implement", "review", "done", "closed",
                                  "archived"})
              => r.error = "ValueError" /\ ~r.ok /\ db' = db /\ disk' = disk
       /\ \A t \in db'.threads :
              t.status \in {"discuss", "implement", "review", "done", "closed", "archived"}
       /\ \A p \in Procs :
              loc'[p].op = "thread_set_state" =>
                  loc'[p].state \in {"discuss", "implement", "review", "done", "closed",
                                     "archived"}]_vars

\* thread_set_state(X, "nonsense") has ended in ValueError on a thread that
\* exists.
C28_Witness ==
    \E r \in replies :
        /\ r.op = "thread_set_state" /\ r.state = "nonsense" /\ r.error = "ValueError"
        /\ \E t \in db.threads : t.id = r.tid

\* C29: thread_set_state, thread_close, thread_archive and thread_unarchive
\* on an id that matches no thread return False, and the event log never
\* holds a thread event of theirs for an id that matches no thread.
C29_UnknownThreadNotFound ==
    /\ \A r \in replies :
          (/\ r.op \in {"thread_set_state", "thread_close", "thread_archive",
                        "thread_unarchive"}
           /\ r.error = ""
           /\ r.tid \notin ThreadIds(db)) => ~r.ok
    /\ \A e \in db.events :
          e.type \in {"thread.state", "thread.closed", "thread.archived", "thread.unarchived"}
              => e.thread_id \in ThreadIds(db)

\* C30: the rows thread_list selects are exactly the threads with the given
\* status when a status is given, all threads but the archived ones when
\* none is given and include_archived is not set, and all threads when it
\* is set; they come newest created_at first, and they are what thread_list
\* returns.
C30_ThreadListFilterAndOrder ==
    [][/\ \A p \in Procs :
              (Served(p, "tl_select") /\ pc'[p] = "tl_fetch") =>
                  LET q == loc'[p].rows
                      wanted == {t \in db.threads :
                                    IF loc[p].state # "" THEN t.status = loc[p].state
                                    ELSE loc[p].include \/ t.status # "archived"}
                  IN /\ {q[i] : i \in 1 .. Len(q)} = wanted
                     /\ Len(q) = Cardinality(wanted)
                     /\ \A i, j \in 1 .. Len(q) :
                            i < j => q[i].created_at >= q[j].created_at
       /\ \A r \in replies' \ replies :
              r.op = "thread_list" =>
                  \E p \in Procs :
                      /\ pc[p] = "tl_close" /\ r.result = loc[p].rows
                      /\ r.status = loc[p].state /\ r.include_archived = loc[p].include]_vars

\* thread_list() has returned two of the three threads, the newer first,
\* and not the archived one the store holds; thread_list(status =
\* "archived") has returned that one alone.
C30_Witness ==
    /\ \E r \in replies :
          /\ r.op = "thread_list" /\ r.status = "" /\ ~r.include_archived
          /\ Len(r.result) = 2 /\ r.result[1].created_at > r.result[2].created_at
          /\ \E t \in db.threads :
                /\ t.status = "archived"
                /\ \A i \in 1 .. Len(r.result) : r.result[i].id # t.id
    /\ \E r \in replies :
          /\ r.op = "thread_list" /\ r.status = "archived"
          /\ Len(r.result) = 1 /\ r.result[1].status = "archived"
          /\ Cardinality(db.threads) > 1

\* ------------------------------------------------------------ thread_delete
\* C31: thread_delete is atomic and its receipt is exact: the message_count
\* it has read equals the number of message rows its DELETE removes, and no
\* commit makes durable the removal of a message whose thread row stays
\* (the removal of the messages without the removal of the thread).
C31_DeleteAtomicAndCounted ==
    [][/\ \A p \in Procs :
              (Served(p, "td_del_msgs") /\ pc'[p] # pc[p]) =>
                  loc[p].cnt = Cardinality(db.messages \ db'.messages)
       /\ \A m \in disk.messages \ disk'.messages :
              m.thread_id \notin ThreadIds(disk')]_vars

\* ------------------------------------------------------ thread_timeout_sweep
\* C32: the UPDATE of a sweep with timeout T > 0 changes only a thread whose
\* status is discuss at that moment and whose last activity (its newest
\* message's created_at, or its own created_at without messages) is older
\* than now - T, leaves it closed with closed_at set and changes no other
\* thread; a sweep with T <= 0 returns an empty list.
C32_SweepClosesStaleDiscussOnly ==
    [][/\ \A p \in Procs :
              (Served(p, "sw_update") /\ pc'[p] # pc[p]) =>
                  \A t \in db.threads \ db'.threads :
                      LET mine == {m.created_at : m \in {x \in db.messages :
                                                            x.thread_id = t.id}}
                      IN /\ t.id = loc[p].tid
                         /\ t.status = "discuss"
                         /\ IF mine = {} THEN t.created_at < now - loc[p].timeout
                            ELSE \A a \in mine : a < now - loc[p].timeout
                         /\ \E u \in db'.threads :
                               u.id = t.id /\ u.status = "closed" /\ u.closed_at # {}
       /\ \A r \in replies' \ replies :
              (r.op = "thread_timeout_sweep" /\ r.timeout <= 0) => r.closed = <<>> /\ db' = db]_vars

\* ------------------------------------------------- msg_post, all or nothing
\* C33: a committed message row whose msg_post is over, completed or aborted
\* by the request timeout, has its msg.new event committed too: no state shows
\* the row of a finished post without its event.
C33_PostAllOrNothing ==
    \A m \in disk.messages :
        (\A p \in Procs : pc[p] = "idle" \/ loc[p].seq # m.seq) =>
            \E e \in disk.events : e.type = "msg.new" /\ e.seq = m.seq

\* ------------------------------------------------------- reading by cursor
\* C34: a reader whose cursor is the greatest seq it has received misses
\* nothing: a message row that becomes visible in a thread has a seq above
\* every seq a msg_list of that thread has already returned, and a msg_list
\* result leaves out no visible row of the thread between after_seq and the
\* greatest seq it returns.
C34_CursorReaderMissesNothing ==
    [][/\ \A m \in db'.messages \ db.messages :
              \A r \in replies :
                  (r.op = "msg_list" /\ r.tid = m.thread_id) =>
                      \A i \in 1 .. Len(r.result) : r.result[i].seq < m.seq
       /\ \A r \in replies' \ replies :
              r.op = "msg_list" =>
                  \A m \in db.messages :
                      (/\ m.thread_id = r.tid
                       /\ m.seq > r.after
                       /\ \E i \in 1 .. Len(r.result) : m.seq <= r.result[i].seq) =>
                          \E i \in 1 .. Len(r.result) : r.result[i].id = m.id]_vars

\* C34 witness: a msg_list of thread X returned exactly the row with seq 1
\* while a second msg_post to X was under way, and the row with seq 2 is now
\* visible: the reader's next call with after_seq = 1 returns it.
C34_Witness ==
    /\ \E r \in replies :
          /\ r.op = "msg_list" /\ r.tid = FirstThread /\ r.after = 0
          /\ \E i \in 1 .. Len(r.result) : r.result[i].seq = 1
          /\ \A i \in 1 .. Len(r.result) : r.result[i].seq <= 1
    /\ \E m \in db.messages : m.thread_id = FirstThread /\ m.seq = 2

\* ------------------------------------------------------------------- get_db
\* C35: among concurrent get_db calls on a fresh process at most one
\* connection is opened, and every call that has returned was handed a
\* connection on which init_schema had completed.
C35_OneConnectionHandedReady ==
    /\ pool.opened <= 1
    /\ \A r \in replies : (r.op = "get_db" /\ r.conn # 0) => r.ready

\* ------------------------------------------------ token check: failed calls
\* C36: a heartbeat, resume, unregister or mark_msg_wait whose agent id is
\* unknown or whose token does not match ends at its check: the caller gets
\* the failure (False, or ValueError from resume), the call goes on to no
\* UPDATE or DELETE, and none of its steps changes an agent row or adds an
\* event.
C36_FailedCheckChangesNothing ==
    [][\A p \in Procs :
          LET op == [ah_auth_close |-> "heartbeat", au_auth_close |-> "resume",
                     an_auth_close |-> "unregister", wt_auth_close |-> "msg_wait"]
              checking == {"ah_auth", "au_auth", "an_auth", "wt_auth",
                           "ah_auth_fetch", "au_auth_fetch", "an_auth_fetch", "wt_auth_fetch"}
          IN /\ (pc[p] \in checking /\ Served(p, pc[p]) /\ pc'[p] # pc[p]) =>
                    db' = db /\ disk' = disk
             /\ (/\ pc[p] \in DOMAIN op
                 /\ Served(p, pc[p])
                 /\ pc'[p] # pc[p]
                 /\ loc[p].auth \in {"unknown", "mismatch"}) =>
                    /\ db' = db /\ disk' = disk
                    /\ pc'[p] \notin {"ah_mark", "au_mark", "an_delete", "wt_mark"}
                    /\ ~loc[p].cancelled =>
                          [op |-> op[pc[p]], auth |-> loc[p].auth,
                           resp |-> "Invalid agent_id/token"] \in replies']_vars

\* C36 witness: a heartbeat with an unknown agent id and a resume with a
\* wrong token have both failed.
C36_Witness ==
    /\ \E r \in replies : r.op = "heartbeat" /\ r.auth = "unknown"
    /\ \E r \in replies : r.op = "resume" /\ r.auth = "mismatch"

\* ---------------------------------------------------- referential integrity
\* C37: every message row, in the connection's view and in the committed
\* store, has the thread_id of a thread row of the same store.
C37_MessagesReferenceThreads ==
    /\ \A m \in db.messages : m.thread_id \in ThreadIds(db)
    /\ \A m \in disk.messages : m.thread_id \in ThreadIds(disk)

\* C37 witness: a thread_delete has removed the thread for good while a
\* msg_post to that thread holds its seq and has its INSERT next in line.
C37_Witness ==
    \E p \in Procs :
        /\ Served(p, "mp_insert")
        /\ ~loc[p].cancelled
        /\ loc[p].tid \in removed
        /\ loc[p].tid \notin ThreadIds(db)
        /\ loc[p].tid \notin ThreadIds(disk)

\* ------------------------------------------------------------ last_activity
\* C38: the UPDATE of a heartbeat, a resume, a mark_msg_wait or the
\* agent_msg_post of a msg_post leaves the agent's row with last_activity
\* naming that operation and last_activity_time at the present time, the
\* INSERT of a register gives the new row "registered", no other step
\* changes either field of a row, and no row's last_activity_time decreases.
C38_LastActivityNamesLatest ==
    [][LET kind == [ah_mark |-> "heartbeat", au_mark |-> "resume",
                    wt_mark |-> "msg_wait", mp_mark |-> "msg_post"]
           target(p) == IF pc[p] = "mp_mark" THEN loc[p].author_id
                        ELSE loc[p].creds.agent_id
           marks(p, id) == /\ pc[p] \in DOMAIN kind
                           /\ Served(p, pc[p])
                           /\ pc'[p] # pc[p]
                           /\ target(p) = id
       IN /\ \A p \in Procs : \A b \in db'.agents :
                 marks(p, b.id) => b.activity = kind[pc[p]] /\ b.at = now
          /\ \A b \in db'.agents :
                 IF b.id \in AgentIds(db)
                 THEN \A a \in db.agents :
                          a.id = b.id =>
                              /\ a.at <= b.at
                              /\ (a.activity # b.activity \/ a.at # b.at) =>
                                     \E p \in Procs :
                                         marks(p, b.id) /\ b.activity = kind[pc[p]]
                 ELSE b.activity = "registered" /\ b.at = now]_vars

\* C38 witness: the agent registered at time 0 has posted a message at a
\* later time and its row says msg_post with that time, while another agent
\* has just registered.
C38_Witness ==
    /\ \E a \in db.agents : a.id = FirstAgent /\ a.activity = "msg_post" /\ a.at > 0
    /\ \E a \in db.agents : a.id # FirstAgent /\ a.activity = "registered"

\* -------------------------------------------------------- events_delete_old
\* C39: the DELETE of events_delete_old removes exactly the events created
\* before now - max_age, leaves the other rows and the AUTOINCREMENT mark as
\* they are, and when the call returns no such event is left in the committed
\* store; every events_since result is strictly ascending and above the
\* checkpoint it was called with, so a consumer that passes its checkpoint
\* receives no event twice and none out of order.
C39_PruneExactAndUnseen ==
    [][/\ \A p \in Procs :
              (Served(p, "ep_delete") /\ pc'[p] # pc[p]) =>
                  /\ db.events \ db'.events = {e \in db.events : e.at < now - EventMaxAge}
                  /\ db'.events \subseteq db.events
                  /\ db'.evseq = db.evseq
       /\ \A p \in Procs :
              (Served(p, "ep_commit") /\ pc'[p] # pc[p]) =>
                  \A e \in disk'.events : ~(e.at < loc[p].cutoff)
       /\ \A r \in replies' \ replies :
              r.op = "events_since" =>
                  \A k \in 1 .. Len(r.rows) :
                      /\ r.rows[k] > r.after
                      /\ \A l \in 1 .. Len(r.rows) : k < l => r.rows[k] < r.rows[l]]_vars

\* ------------------------------------------------- the system prompt row
\* C40: every message row of the store has seq >= 1 and none has the id of a
\* system prompt row (sys-{thread_id}), and no step of a msg_list call changes
\* the seq counter or the messages table.
C40_SystemPromptNeverStored ==
    /\ [](\A m \in db.messages \cup disk.messages :
              m.seq >= 1 /\ m.id # 0 - m.thread_id)
    /\ [][\A p \in Procs :
              (/\ pc[p] \in {"ml_select", "ml_fetch", "ml_close", "ml_sys", "ml_sys_fetch",
                             "ml_sys_close"}
               /\ pc'[p] # pc[p]) =>
                  /\ db'.seq = db.seq
                  /\ db'.messages = db.messages
                  /\ maxAlloc' = maxAlloc]_vars

\* C40 witness: a msg_list returned the system prompt row followed by the
\* stored row with seq 1, and the counter stands at 1.
C40_Witness ==
    /\ db.seq = 1
    /\ \E r \in replies :
          /\ r.op = "msg_list"
          /\ Len(r.result) >= 2
          /\ r.result[1].seq = SystemPromptSeq
          /\ r.result[2].seq = 1

====
